---- MODULE Spec2Model ----
(***************************************************************************)
(* Model of the schema compiler "canner" (src/canner/src/canner.cc): the   *)
(* emitter sinks, the path resolver, the definition table, the schema      *)
(* walker and the driver.                                                  *)
(*                                                                         *)
(* Strings are sequences of one-character strings, so that splitting on    *)
(* '/', prefix tests and the per-character sanitising transform are        *)
(* computed as the code computes them.  Text written to a sink is a        *)
(* sequence of tokens; a token is a sequence of strings; the token NL is   *)
(* the newline character, every other token is newline-free content.       *)
(***************************************************************************)
EXTENDS Integers, Sequences, FiniteSets, TLC

VARIABLES
  pc,        \* Spec: the position of process / main; SpecWalk: "walk"
  doc,       \* the root node of the loaded schema document
  ctx,       \* the run context
  call,      \* the last call of a walker function: arguments, context at entry, Errata returned
  result,    \* the Errata process returns to main
  exit_code, \* what main returns (-1 while running)
  fn,        \* SpecEqual, SpecLocate: the last call of a function: arguments and result
  o_sink,   \* SpecOut: one emitter sink [text, indent, sol]
  o_log,    \* SpecOut: the characters handed to write, each with the depth in force
  o_n       \* SpecOut: number of operations applied to the sink

vars == <<pc, doc, ctx, call, result, exit_code, fn, o_sink, o_log, o_n>>

run_vars == <<pc, doc, ctx, call, result, exit_code, fn>>
out_vars == <<o_sink, o_log, o_n>>

----------------------------------------------------------------------------
(* Bounds of the model. *)
MaxOps == 4      \* SpecOut: number of operations applied to the sink
MaxLen == 2      \* SpecOut: length of one written text
MaxDepth == 2    \* SpecOut: indent / exdent keep the depth within -1..MaxDepth

----------------------------------------------------------------------------
(* Emitter sinks: Context::out, indent_*, exdent_*. *)

NL == <<"\n">>
IND == <<"  ">>

Sink0 == [text |-> <<>>, indent |-> 0, sol |-> TRUE]

Indent(s) == [s EXCEPT !.indent = @ + 1]
Exdent(s) == [s EXCEPT !.indent = @ - 1]

\* for (int i = indent; i > 0; --i) s << "  ";
WriteIndent(text, indent) == text \o [i \in 1..indent |-> IND]

\* Index of the first newline of text, 0 when there is none.
FindNL(text) ==
  IF \E i \in 1..Len(text) : text[i] = NL
  THEN CHOOSE i \in 1..Len(text) : text[i] = NL /\ \A j \in 1..(i - 1) : text[j] # NL
  ELSE 0

\* TextView::split_prefix_at('\n'): with a newline at p the prefix before it is
\* returned and the view keeps what follows it; without one the result is empty
\* and the view is unchanged.
SplitLine(text) ==
  LET p == FindNL(text)
  IN  IF p > 0
      THEN [line |-> SubSeq(text, 1, p - 1), rest |-> SubSeq(text, p + 1, Len(text)), found |-> TRUE]
      ELSE [line |-> <<>>, rest |-> text, found |-> FALSE]

\* A faulty start-of-line step: the indentation is shipped whatever sol_p says.
OutIndentationAlways(s) ==
  [s EXCEPT !.text = WriteIndent(@, s.indent), !.sol = FALSE]

\* The start-of-line step of out(): indentation is shipped when sol_p is set.
OutIndentation(s) ==
  IF s.sol THEN [s EXCEPT !.text = WriteIndent(@, s.indent), !.sol = FALSE] ELSE s

\* Context::out: the while loop over the text.
RECURSIVE Out(_, _)
Out(s, text) ==
  IF text = <<>> THEN s
  ELSE LET sp == SplitLine(text)
       IN  IF sp.line = <<>> /\ sp.found
           THEN Out([s EXCEPT !.text = Append(@, NL), !.sol = TRUE], sp.rest)
           ELSE LET s1 == OutIndentation(s)
                IN  IF sp.line # <<>>
                    THEN Out([s1 EXCEPT !.text = @ \o sp.line \o <<NL>>, !.sol = TRUE], sp.rest)
                    ELSE IF sp.rest # <<>>
                         THEN [s1 EXCEPT !.text = @ \o sp.rest, !.sol = FALSE]
                         ELSE s1

----------------------------------------------------------------------------
(* Strings of the program, as character sequences. *)

REF_KEY == <<"$", "r", "e", "f">>

PropName ==
  [TYPE       |-> <<"t", "y", "p", "e">>,
   PROPERTIES |-> <<"p", "r", "o", "p", "e", "r", "t", "i", "e", "s">>,
   REQUIRED   |-> <<"r", "e", "q", "u", "i", "r", "e", "d">>,
   ITEMS      |-> <<"i", "t", "e", "m", "s">>,
   MIN_ITEMS  |-> <<"m", "i", "n", "I", "t", "e", "m", "s">>,
   MAX_ITEMS  |-> <<"m", "a", "x", "I", "t", "e", "m", "s">>,
   ONE_OF     |-> <<"o", "n", "e", "O", "f">>,
   ANY_OF     |-> <<"a", "n", "y", "O", "f">>,
   ENUM       |-> <<"e", "n", "u", "m">>]

\* enum class SchemaType, in declaration order (INVALID is the sentinel).
SchemaTypes == <<"NIL", "BOOL", "OBJECT", "ARRAY", "NUMBER", "INTEGER", "STRING">>

SchemaTypeLexicon ==
  [NIL     |-> <<"n", "u", "l", "l">>,
   BOOL    |-> <<"b", "o", "o", "l", "e", "a", "n">>,
   OBJECT  |-> <<"o", "b", "j", "e", "c", "t">>,
   ARRAY   |-> <<"a", "r", "r", "a", "y">>,
   NUMBER  |-> <<"n", "u", "m", "b", "e", "r">>,
   INTEGER |-> <<"i", "n", "t", "e", "g", "e", "r">>,
   STRING  |-> <<"s", "t", "r", "i", "n", "g">>]

\* SchemaTypeLexicon[name]: the type of a name, INVALID by default.
LexiconType(name) ==
  IF \E i \in 1..Len(SchemaTypes) : SchemaTypeLexicon[SchemaTypes[i]] = name
  THEN SchemaTypes[CHOOSE i \in 1..Len(SchemaTypes) : SchemaTypeLexicon[SchemaTypes[i]] = name]
  ELSE "INVALID"

\* A faulty table: the entry of INTEGER names the predicate of NUMBER.
SchemaTypeCheckSlip ==
  [NIL     |-> <<"is_null_type">>,
   BOOL    |-> <<"is_bool_type">>,
   OBJECT  |-> <<"is_object_type">>,
   ARRAY   |-> <<"is_array_type">>,
   NUMBER  |-> <<"is_number_type">>,
   INTEGER |-> <<"is_number_type">>,
   STRING  |-> <<"is_string_type">>]

SchemaTypeCheck ==
  [NIL     |-> <<"is_null_type">>,
   BOOL    |-> <<"is_bool_type">>,
   OBJECT  |-> <<"is_object_type">>,
   ARRAY   |-> <<"is_array_type">>,
   NUMBER  |-> <<"is_number_type">>,
   INTEGER |-> <<"is_integer_type">>,
   STRING  |-> <<"is_string_type">>]

ObjectPropNames == <<PropName.PROPERTIES, PropName.REQUIRED>>
ArrayPropNames == <<PropName.ITEMS, PropName.MIN_ITEMS, PropName.MAX_ITEMS>>

----------------------------------------------------------------------------
(* YAML nodes: kind, scalar text, and the children (keys, vals) in document *)
(* order.                                                                   *)

NullNode == [kind |-> "NULL", scalar |-> <<>>, keys |-> <<>>, vals |-> <<>>]
UndefinedNode == [kind |-> "UNDEFINED", scalar |-> <<>>, keys |-> <<>>, vals |-> <<>>]
ScalarNode(s) == [kind |-> "SCALAR", scalar |-> s, keys |-> <<>>, vals |-> <<>>]
SeqNode(vals) == [kind |-> "SEQUENCE", scalar |-> <<>>, keys |-> <<>>, vals |-> vals]
MapNode(keys, vals) == [kind |-> "MAP", scalar |-> <<>>, keys |-> keys, vals |-> vals]

IsMap(n) == n.kind = "MAP"
IsSequence(n) == n.kind = "SEQUENCE"
IsScalar(n) == n.kind = "SCALAR"
IsDefined(n) == n.kind # "UNDEFINED"
Size(n) == Len(n.vals)

\* node[key]: the value of the key in a map, an undefined node otherwise.
Get(n, key) ==
  IF IsMap(n) /\ \E i \in 1..Len(n.keys) : n.keys[i] = key
  THEN n.vals[CHOOSE i \in 1..Len(n.keys) :
                 n.keys[i] = key /\ \A j \in 1..(i - 1) : n.keys[j] # key]
  ELSE UndefinedNode

Has(n, key) == IsDefined(Get(n, key))

----------------------------------------------------------------------------
(* Errata: an ordered list of notes, each with a severity. *)

Rank(sev) ==
  CASE sev = "DIAG" -> 0 [] sev = "INFO" -> 1 [] sev = "WARN" -> 2 [] sev = "ERROR" -> 3

NoErrata == <<>>

\* Errata::severity(): the highest severity of any note.
Severity(e) ==
  IF \E i \in 1..Len(e) : e[i].sev = "ERROR" THEN "ERROR"
  ELSE IF \E i \in 1..Len(e) : e[i].sev = "WARN" THEN "WARN"
  ELSE IF \E i \in 1..Len(e) : e[i].sev = "INFO" THEN "INFO"
  ELSE "DIAG"

IsError(e) == Rank(Severity(e)) >= Rank("ERROR")

\* Errata::is_ok(): nothing at the failure severity (WARN) or above.
IsOk(e) == Rank(Severity(e)) < Rank("WARN")

Note(e, sev, msg) == Append(e, [sev |-> sev, msg |-> msg])
Error(e, msg) == Note(e, "ERROR", msg)
Warn(e, msg) == Note(e, "WARN", msg)
Info(e, msg) == Note(e, "INFO", msg)
\* Errata::note(Errata const&): the notes of that are added to this.
NoteAll(e, that) == e \o that

----------------------------------------------------------------------------
(* The run context. *)

Schema == <<"Schema">>

Context0 ==
  [root_node   |-> NullNode,
   class_name  |-> Schema,
   notes       |-> NoErrata,
   src         |-> Sink0,
   hdr         |-> Sink0,
   var_idx     |-> 1,
   allocated   |-> <<>>,
   definitions |-> <<>>,
   dropped     |-> NoErrata]

\* A formatted text: the literal pieces and the arguments, empty arguments
\* contributing nothing.
Text(tokens) == SelectSeq(tokens, LAMBDA t : t # <<>>)

\* The calls that write to a sink, as a list: W is src_out / hdr_out of a
\* formatted text, INDENT is indent_*, EXDENT is exdent_*.
W(tokens) == [op |-> "out", text |-> Text(tokens)]
INDENT == [op |-> "indent", text |-> <<>>]
EXDENT == [op |-> "exdent", text |-> <<>>]

SinkCall(s, o) ==
  IF o.op = "indent" THEN Indent(s)
  ELSE IF o.op = "exdent" THEN Exdent(s)
  ELSE Out(s, o.text)

\* The calls of a list, made in order: those of its first half, and on the sink
\* they leave those of its second half.
RECURSIVE SinkCalls(_, _)
SinkCalls(s, ops) ==
  IF Len(ops) = 0 THEN s
  ELSE IF Len(ops) = 1 THEN SinkCall(s, ops[1])
  ELSE CHOOSE after \in {SinkCalls(t, SubSeq(ops, Len(ops) \div 2 + 1, Len(ops))) :
                          t \in {SinkCalls(s, SubSeq(ops, 1, Len(ops) \div 2))}} : TRUE

\* A list of src_out / indent_src / exdent_src calls.
src(c, ops) == [c EXCEPT !.src = SinkCalls(@, ops)]
\* A list of hdr_out / indent_hdr / exdent_hdr calls.
hdr(c, ops) == [c EXCEPT !.hdr = SinkCalls(@, ops)]

\* The return value of a call is dropped by the caller.
Drop(c, e) == [c EXCEPT !.dropped = @ \o e]

Num(n) == <<ToString(n)>>

\* Context::var_name: "node_{}" with the post-incremented index; allocated is
\* the list of the names it has returned.
VarName(c) == <<"node_", ToString(c.var_idx)>>

\* A faulty allocator: the index is not incremented.
var_name_same(c) == [c EXCEPT !.allocated = Append(@, VarName(c))]

var_name(c) == [c EXCEPT !.var_idx = @ + 1, !.allocated = Append(@, VarName(c))]

\* The result of a walker function: the context and the returned Errata.
Rv(c, e) == [c |-> c, e |-> e]

\* return notes.error(...): the ERROR goes to the run's notes, which are returned.
NotesError(c, msg) == Rv([c EXCEPT !.notes = Error(@, msg)], Error(c.notes, msg))
\* notes.warn(...); return notes;
NotesWarn(c, msg) == Rv([c EXCEPT !.notes = Warn(@, msg)], Warn(c.notes, msg))
\* return notes;
ReturnNotes(c) == Rv(c, c.notes)

----------------------------------------------------------------------------
(* Direct code generation: the emit_* functions. *)

\* Node::Scalar(): the text of a scalar, empty for any other node.
ScalarOf(n) == IF IsScalar(n) THEN n.scalar ELSE <<>>

MinItemsCheck(var, limit) ==
  <<W(<<<<"if (">>, var, <<".size() < ">>, Num(limit),
        <<") { erratum.error(\"Array at line {} has only {} items instead of the required ">>,
        Num(limit), <<" items\", ">>, var, <<".Mark().line, ">>, var,
        <<".size()); return false; }">>, NL>>)>>

emit_min_items_check(c, var, limit) == src(c, MinItemsCheck(var, limit))

MaxItemsCheck(var, limit) ==
  <<W(<<<<"if (">>, var, <<".size() > ">>, Num(limit),
        <<") { erratum.error(\"Array at line {} has {} items instead of the maximum ">>,
        Num(limit), <<" items\", ">>, var, <<".Mark().line, ">>, var,
        <<".size()); return false; }">>, NL>>)>>

emit_max_items_check(c, var, limit) == src(c, MaxItemsCheck(var, limit))

\* The calls of emit_required_check; the loop writes each tag after the delimiter.
RequiredCheck(vals, var) ==
  <<W(<<<<"// check for required tags">>, NL, <<"for ( auto && tag : { ">>>>)>>
  \o [i \in 1..Len(vals) |->
        W(<<IF i = 1 THEN <<>> ELSE <<", ">>, <<"\"">>, ScalarOf(vals[i]), <<"\"">>>>)]
  \o <<W(<<<<" } ) {">>, NL>>),
       INDENT,
       W(<<<<"if (!">>, var, <<"[tag]) {">>, NL>>),
       INDENT,
       W(<<<<"erratum.error(\"Required tag '{}' at line {} was not found.\", tag, ">>,
           var, <<".Mark().line);">>, NL, <<"return false;">>, NL>>),
       EXDENT,
       W(<<<<"}">>, NL>>),
       EXDENT,
       W(<<<<"}">>, NL>>)>>

emit_required_check(c, node, var) == src(c, RequiredCheck(node.vals, var))

\* A faulty loop over the types: the test of the set is left out.
TypesInUnfiltered(types) == SchemaTypes

\* The types of a set in the order of SchemaTypes.
TypesIn(types) == SelectSeq(SchemaTypes, LAMBDA t : t \in types)

\* The calls of emit_type_check for the types ts of the set, in order.
TypeCheck(ts, var) ==
  <<W(<<<<"// validate value type">>, NL>>), W(<<<<"if (! ">>>>)>>
  \o (IF Len(ts) = 1
      THEN <<W(<<SchemaTypeCheck[ts[1]], <<"(">>, var,
                 <<")) { erratum.error(\"'{}' value at line {} was not ">>,
                 SchemaTypeLexicon[ts[1]], <<"\", name, ">>, var,
                 <<".Mark().line); return false; }">>, NL>>)>>
      ELSE <<W(<<<<"(">>>>)>>
           \o [i \in 1..Len(ts) |->
                 W(<<IF i = 1 THEN <<>> ELSE <<" || ">>, SchemaTypeCheck[ts[i]], <<"(">>, var, <<")">>>>)]
           \o <<W(<<<<")) {">>, NL>>),
                INDENT,
                W(<<<<"erratum.error(\"value at line {} was not one of the required types ">>>>)>>
           \o [i \in 1..Len(ts) |->
                 W(<<IF i = 1 THEN <<>> ELSE <<", ">>, <<"'">>, SchemaTypeLexicon[ts[i]], <<"'">>>>)]
           \o <<W(<<<<"\");">>, NL, <<"return false;">>, NL>>),
                EXDENT,
                W(<<<<"}">>, NL>>)>>)

emit_type_check(c, types, var) == src(c, TypeCheck(TypesIn(types), var))

----------------------------------------------------------------------------
(* The 'type' property. *)

\* A faulty check lambda: a name that is not a type records a WARN.
TypeCheckNameLenient(r, primitive) ==
  IF primitive = "INVALID" THEN [r EXCEPT !.e = Warn(@, "type: not a valid type")]
  ELSE IF primitive \in r.types
       THEN [r EXCEPT !.e = Warn(@, "type: already specified")]
       ELSE [r EXCEPT !.types = @ \cup {primitive}]

\* The check lambda of process_type_value on one name node.
TypeCheckName(r, primitive) ==
  IF primitive = "INVALID" THEN [r EXCEPT !.e = Error(@, "type: not a valid type")]
  ELSE IF primitive \in r.types
       THEN [r EXCEPT !.e = Warn(@, "type: already specified")]
       ELSE [r EXCEPT !.types = @ \cup {primitive}]

RECURSIVE TypeCheckNames(_, _, _)
TypeCheckNames(r, vals, i) ==
  IF i > Len(vals) THEN r
  ELSE TypeCheckNames(TypeCheckName(r, LexiconType(ScalarOf(vals[i]))), vals, i + 1)

\* Context::process_type_value: the Errata and the type set it leaves in types.
process_type_value(value, types) ==
  IF IsScalar(value) THEN TypeCheckNames([e |-> NoErrata, types |-> types], <<value>>, 1)
  ELSE IF IsSequence(value) THEN TypeCheckNames([e |-> NoErrata, types |-> types], value.vals, 1)
  ELSE [e |-> Error(NoErrata, "type: must be a string or array of strings"), types |-> types]

----------------------------------------------------------------------------
(* Integer properties: trimming and swoc::svtoi on decimal text. *)

Digits == <<"0", "1", "2", "3", "4", "5", "6", "7", "8", "9">>
IsDigit(ch) == \E d \in 1..Len(Digits) : Digits[d] = ch
DigitValue(ch) == (CHOOSE d \in 1..Len(Digits) : Digits[d] = ch) - 1
IsSpace(ch) == ch = " "

\* TextView::trim_if(&isspace)
RECURSIVE LTrim(_)
LTrim(t) == IF t # <<>> /\ IsSpace(t[1]) THEN LTrim(Tail(t)) ELSE t
RECURSIVE RTrim(_)
RTrim(t) == IF t # <<>> /\ IsSpace(t[Len(t)]) THEN RTrim(SubSeq(t, 1, Len(t) - 1)) ELSE t
Trim(t) == RTrim(LTrim(t))

\* The digits of t from position i on: the value and the position after them.
RECURSIVE ParseDigits(_, _, _)
ParseDigits(t, i, acc) ==
  IF i <= Len(t) /\ IsDigit(t[i])
  THEN ParseDigits(t, i + 1, acc * 10 + DigitValue(t[i]))
  ELSE [n |-> acc, next |-> i]

\* swoc::svtoi(value, &parsed) on text without a base prefix: an optional sign
\* and decimal digits; parsed is empty when no digit was read.
svtoi(t) ==
  LET signed == t # <<>> /\ t[1] \in {"-", "+"}
      first == IF signed THEN 2 ELSE 1
      d == ParseDigits(t, first, 0)
  IN  IF d.next = first THEN [n |-> 0, parsed |-> 0]
      ELSE [n |-> IF signed /\ t[1] = "-" THEN 0 - d.n ELSE d.n, parsed |-> d.next - 1]

\* std::numeric_limits<int>::max()
INT_MAX == 2147483647

----------------------------------------------------------------------------
(* YAML::Emitter << node, for the scalars, nulls and flat sequences of an  *)
(* enum: the emitted text as tokens.                                       *)

RECURSIVE EmitItems(_, _)
EmitItems(vals, i) ==
  IF i > Len(vals) THEN <<>>
  ELSE (IF i = 1 THEN <<>> ELSE <<NL>>) \o <<<<"- ">>, ScalarOf(vals[i])>> \o EmitItems(vals, i + 1)

Emit(n) ==
  IF IsScalar(n) THEN <<n.scalar>>
  ELSE IF IsSequence(n) THEN (IF Size(n) = 0 THEN <<<<"[]">>>> ELSE EmitItems(n.vals, 1))
  ELSE IF IsMap(n) THEN <<<<"{}">>>>
  ELSE <<<<"~">>>>

----------------------------------------------------------------------------
(* The schema walker.  Every function takes the context and returns        *)
(* Rv(context, Errata).  A function in progress is a record of the         *)
(* context, the local Errata zret and whether the function has returned;   *)
(* each statement of the function is an operator on that record, which     *)
(* leaves it alone once the function has returned.                         *)

RECURSIVE validate_node(_, _, _)

NodeVar == <<"node">>

\* The start of a function: Errata zret; and its return.
Enter(c) == [c |-> c, e |-> NoErrata, returned |-> FALSE]
Leave(st) == Rv(st.c, st.e)

\* A faulty check of a nested result: the function goes on after an ERROR.
NoteAndGoOn(st, r) == [c |-> r.c, e |-> NoteAll(st.e, r.e), returned |-> FALSE]

\* if (zret.note(r).severity() >= Severity::ERROR) return zret;
NoteOrReturn(st, r) ==
  [c |-> r.c, e |-> NoteAll(st.e, r.e), returned |-> IsError(NoteAll(st.e, r.e))]

\* if (zret.note(r).severity() >= Severity::ERROR) return zret.note(zret.severity(), msg);
NoteOrReturnNoting(st, r, msg) ==
  [c |-> r.c,
   e |-> IF IsError(NoteAll(st.e, r.e))
         THEN Note(NoteAll(st.e, r.e), Severity(NoteAll(st.e, r.e)), msg)
         ELSE NoteAll(st.e, r.e),
   returned |-> IsError(NoteAll(st.e, r.e))]

\* return zret.error(msg);
ReturnError(st, msg) == [st EXCEPT !.e = Error(@, msg), !.returned = TRUE]

\* return notes.error(msg);
ReturnNotesError(st, msg) == [st EXCEPT !.c.notes = Error(@, msg), !.returned = TRUE]

\* ---- anyOf

AnyOfOpen(node) ==
  <<W(<<<<"// ">>, PropName.ANY_OF, NL, <<"swoc::Errata any_of_err;">>, NL,
        <<"std::array<Validator, ">>, Num(Size(node)), <<"> any_of_verify = {">>, NL>>),
    INDENT>>

AnyOfLambda ==
  <<W(<<<<"[&erratum = any_of_err, name, this] (YAML::Node const& node) -> bool {">>, NL>>), INDENT>>

LambdaEnd == <<W(<<<<"return true;">>, NL>>), EXDENT, W(<<<<"},">>, NL>>)>>

AnyOfClose(var) ==
  <<EXDENT,
    W(<<<<"};">>, NL>>),
    W(<<<<"if (! std::any_of(any_of_verify.begin(), any_of_verify.end(), [&] (Validator const& vf) { return vf(">>,
        var, <<"); })) {">>, NL>>),
    INDENT,
    W(<<<<"erratum.note(any_of_err);">>, NL,
        <<"erratum.error(\"Node at line {} was not valid for any of these schemas.\", ">>,
        var, <<".Mark().line);">>, NL, <<"return false;">>, NL>>),
    EXDENT,
    W(<<<<"}">>, NL>>)>>

\* zret.note(r); zret.note(r.severity(), ...), when r is not empty.
AnyOfNote(zret, r) ==
  IF r # NoErrata THEN Note(NoteAll(zret, r), Severity(r), "anyOf: processing value") ELSE zret

\* One iteration of the loop of process_any_of_value, after its validate_node.
AnyOfNoted(st, r) ==
  IF r.e # NoErrata /\ IsError(AnyOfNote(st.e, r.e))
  THEN [c |-> r.c, e |-> AnyOfNote(st.e, r.e), returned |-> TRUE]
  ELSE [c |-> src(r.c, LambdaEnd), e |-> AnyOfNote(st.e, r.e), returned |-> FALSE]

AnyOfSchema(st, schema) ==
  AnyOfNoted(st, validate_node(src(st.c, AnyOfLambda), schema, NodeVar))

\* The loop of process_any_of_value over the sub-schemas.
RECURSIVE AnyOfSchemas(_, _, _)
AnyOfSchemas(st, vals, i) ==
  IF st.returned \/ i > Len(vals) THEN st
  ELSE AnyOfSchemas(AnyOfSchema(st, vals[i]), vals, i + 1)

AnyOfEnd(st, var) ==
  IF st.returned THEN st ELSE [st EXCEPT !.c = src(@, AnyOfClose(var))]

\* Context::process_any_of_value
process_any_of_value(c, node, var) ==
  IF ~IsSequence(node) THEN Rv(c, Error(NoErrata, "anyOf: must be array type"))
  ELSE IF Size(node) < 1 THEN Rv(c, Warn(NoErrata, "anyOf: no items"))
  ELSE Leave(AnyOfEnd(AnyOfSchemas(Enter(src(var_name(c), AnyOfOpen(node))), node.vals, 1), var))

\* ---- oneOf

OneOfOpen(node) ==
  <<W(<<<<"// ">>, PropName.ONE_OF, NL, <<"swoc::Errata one_of_err;">>, NL,
        <<"std::array<Validator, ">>, Num(Size(node)), <<"> one_of_verify = {">>, NL>>),
    INDENT>>

\* A faulty opening of a callable: it captures the diagnostic of the caller.
OneOfLambdaOuter ==
  <<W(<<<<"[&erratum, name, this] (YAML::Node const& node) -> bool {">>, NL>>), INDENT>>

OneOfLambda ==
  <<W(<<<<"[&erratum = one_of_err, name, this] (YAML::Node const& node) -> bool {">>, NL>>), INDENT>>

OneOfClose(var) ==
  <<EXDENT,
    W(<<<<"};">>, NL>>),
    W(<<<<"unsigned one_of_count = 0;">>, NL, <<"for ( auto && vf : one_of_verify ) {">>, NL>>),
    INDENT,
    W(<<<<"if (vf(">>, var, <<") && ++one_of_count > 1) {">>, NL>>),
    INDENT,
    W(<<<<"erratum.error(\"Node at line {} was valid for more than one schema.\", ">>,
        var, <<".Mark().line);">>, NL, <<"return false;">>, NL>>),
    EXDENT,
    W(<<<<"}">>, NL>>),
    EXDENT,
    W(<<<<"}">>, NL>>),
    W(<<<<"if (one_of_count != 1) {">>, NL>>),
    INDENT,
    W(<<<<"erratum.note(one_of_err);">>, NL,
        <<"erratum.error(\"'{}' value at line {} was not valid for any of these schemas.\", name,">>,
        var, <<".Mark().line);">>, NL, <<"return false;">>, NL>>),
    EXDENT,
    W(<<<<"}">>, NL>>)>>

\* One iteration of the loop of process_one_of_value; the Errata of the nested
\* validate_node is not used.
OneOfNoted(st, r) == [st EXCEPT !.c = src(Drop(r.c, r.e), LambdaEnd)]

OneOfSchema(st, schema) ==
  OneOfNoted(st, validate_node(src(st.c, OneOfLambda), schema, NodeVar))

\* The loop of process_one_of_value over the sub-schemas.
RECURSIVE OneOfSchemas(_, _, _)
OneOfSchemas(st, vals, i) ==
  IF st.returned \/ i > Len(vals) THEN st
  ELSE OneOfSchemas(OneOfSchema(st, vals[i]), vals, i + 1)

OneOfEnd(st, var) ==
  IF st.returned THEN st ELSE [st EXCEPT !.c = src(@, OneOfClose(var))]

\* return notes;
LeaveNotes(st) == ReturnNotes(st.c)

\* Context::process_one_of_value: diagnostics go to the run's notes, which are
\* what is returned.
process_one_of_value(c, node, var) ==
  IF ~IsSequence(node) THEN NotesError(c, "oneOf: must be array type")
  ELSE IF Size(node) < 1 THEN NotesWarn(c, "oneOf: no items")
  ELSE LeaveNotes(OneOfEnd(OneOfSchemas(Enter(src(var_name(c), OneOfOpen(node))), node.vals, 1), var))

\* ---- enum

\* usage += e.c_str() + separator, for each value from i on.
RECURSIVE EnumUsage(_, _)
EnumUsage(vals, i) ==
  IF i > Len(vals) THEN <<>> ELSE Emit(vals[i]) \o <<<<", ">>>> \o EnumUsage(vals, i + 1)

\* usage.resize(usage.size() - 2): the last separator is cut off.
Resized(usage) == SubSeq(usage, 1, Len(usage) - 1)

\* The calls of process_enum_value on a non-empty list of values.
EnumCheck(vals, var) ==
  <<W(<<<<"bool enum_match_p = false;">>, NL, <<"for ( auto && vn : { ">>>>)>>
  \o [i \in 1..Len(vals) |->
        W(<<<<"YAML::Load(R\"uthira(">>>> \o Emit(vals[i]) \o <<<<")uthira\"), ">>>>)]
  \o <<W(<<<<" } ) {">>, NL>>),
       INDENT,
       W(<<<<"if ( equal(vn, ">>, var, <<") ) {">>, NL>>),
       INDENT,
       W(<<<<"enum_match_p = true;">>, NL, <<"break;">>, NL>>),
       EXDENT,
       W(<<<<"}">>, NL>>),
       EXDENT,
       W(<<<<"}">>, NL>>),
       W(<<<<"if (!enum_match_p) {">>, NL>>),
       INDENT,
       W(<<<<"YAML::Emitter yem;">>, NL, <<"yem << ">>, var, <<";">>, NL,
           <<"erratum.error(\"'{}' value '{}' at line {} is invalid - it must be one of {}.\", name, yem.c_str(), ">>,
           var, <<".Mark().line, R\"uthira(">>>> \o Resized(EnumUsage(vals, 1))
           \o <<<<")uthira\");">>, NL, <<"return false;">>, NL>>),
       EXDENT,
       W(<<<<"}">>, NL>>)>>

\* Context::process_enum_value
process_enum_value(c, node, var) ==
  IF ~IsSequence(node) THEN NotesError(c, "enum: must be array type")
  ELSE IF Size(node) < 1 THEN NotesWarn(c, "enum: no items")
  ELSE ReturnNotes(src(c, EnumCheck(node.vals, var)))

\* ---- object

\* std::any_of over a list of property names: is one of them a key of node.
HasTags(node, names) == \E i \in 1..Len(names) : Has(node, names[i])

\* The closing of a block: exdent_src(); src_out("}}\n").
BlockClose == <<EXDENT, W(<<<<"}">>, NL>>)>>

\* The opening of the guard of process_object_value.
ObjectGuard(var) ==
  <<W(<<<<"if (">>, var, <<"(">>, SchemaTypeCheck.OBJECT, <<")) {">>, NL>>), INDENT>>

PropertyOpen(var, nvar, key) ==
  <<W(<<<<"if (">>, var, <<"[\"">>, key, <<"\"]) {">>, NL>>),
    INDENT,
    W(<<<<"auto ">>, nvar, <<" = ">>, var, <<"[\"">>, key, <<"\"];">>, NL>>)>>

\* One iteration of the loop of process_object_value; the Errata of the nested
\* validate_node is not used.
PropertyNoted(st, r) == [st EXCEPT !.c = src(Drop(r.c, r.e), BlockClose)]

ObjectProperty(st, n_1, var, nvar, i) ==
  PropertyNoted(st, validate_node(src(st.c, PropertyOpen(var, nvar, n_1.keys[i])), n_1.vals[i], nvar))

\* The loop of process_object_value over the properties.
RECURSIVE ObjectProperties(_, _, _, _, _)
ObjectProperties(st, n_1, var, nvar, i) ==
  IF st.returned \/ i > Size(n_1) THEN st
  ELSE ObjectProperties(ObjectProperty(st, n_1, var, nvar, i), n_1, var, nvar, i + 1)

\* auto nvar = this->var_name();
PropertiesVar(st) == [st EXCEPT !.c = var_name(@)]

\* The statements of process_object_value: the opening of the guard,
ObjectGuarded(st, var, guard_p) ==
  IF guard_p THEN [st EXCEPT !.c = src(@, ObjectGuard(var))] ELSE st

\* the 'required' property,
ObjectRequired(st, required_node, var) ==
  IF st.returned \/ ~IsDefined(required_node) THEN st
  ELSE IF ~IsSequence(required_node) THEN ReturnNotesError(st, "required: is not type array")
  ELSE [st EXCEPT !.c = emit_required_check(@, required_node, var)]

\* the 'properties' property,
ObjectProps(st, n_1, var) ==
  IF st.returned \/ ~IsDefined(n_1) THEN st
  ELSE IF ~IsMap(n_1) THEN ReturnNotesError(st, "properties: is not type object")
  ELSE ObjectProperties(PropertiesVar(st), n_1, var, VarName(st.c), 1)

\* and the closing of the guard.
ObjectEnd(st, guard_p) ==
  IF st.returned \/ ~guard_p THEN st ELSE [st EXCEPT !.c = src(@, BlockClose)]

ObjectStatements(c, node, var, guard_p) ==
  ObjectEnd(ObjectProps(ObjectRequired(ObjectGuarded(Enter(c), var, guard_p),
                                       Get(node, PropName.REQUIRED), var),
                        Get(node, PropName.PROPERTIES), var),
            guard_p)

\* Context::process_object_value: diagnostics go to the run's notes, which are
\* what is returned.
process_object_value(c, node, var, types) ==
  LeaveNotes(ObjectStatements(c, node, var, Cardinality(types) # 1 /\ HasTags(node, ObjectPropNames)))

\* ---- array

\* The opening of the guard of process_array_value.
ArrayGuard(var) ==
  <<W(<<<<"if (">>, SchemaTypeCheck.ARRAY, <<"(">>, var, <<")) {">>, NL>>), INDENT>>

\* The trimmed text of an integer property.
ItemsValue(node, name) == Trim(ScalarOf(Get(node, name)))

\* min_items, max_items: the parsed property, the initial value without it.
MinItems(node) ==
  IF Has(node, PropName.MIN_ITEMS) THEN svtoi(ItemsValue(node, PropName.MIN_ITEMS)).n ELSE 0
MaxItems(node) ==
  IF Has(node, PropName.MAX_ITEMS) THEN svtoi(ItemsValue(node, PropName.MAX_ITEMS)).n ELSE INT_MAX

\* parsed.size() != value.size() || items < 0, for a property that is there.
ItemsInvalid(node, name) ==
  /\ Has(node, name)
  /\ \/ svtoi(ItemsValue(node, name)).parsed # Len(ItemsValue(node, name))
     \/ svtoi(ItemsValue(node, name)).n < 0

ItemsOpen(nvar, var) ==
  <<W(<<<<"for ( auto && ">>, nvar, <<" : ">>, var, <<" ) {">>, NL>>), INDENT>>

SwitchOpen(var) == <<W(<<<<"switch (">>, var, <<".size()) {">>, NL>>), INDENT>>

\* The case label of the dispatch: the format has a field and no argument.
CaseLabel == <<<<"case ">>, <<"{BAD_ARG_INDEX:0 of 0}">>, <<": {">>, NL>>

CaseOpen(var, nvar, idx) ==
  <<W(CaseLabel), INDENT, W(<<<<"auto ">>, nvar, <<" = ">>, var, <<"[">>, Num(idx), <<"];">>, NL>>)>>

CaseClose == <<W(<<<<"}">>, NL>>), EXDENT>>

\* The unconditional tuple loop of process_array_value (limit <= min_items).
RECURSIVE TupleItems(_, _, _, _, _)
TupleItems(st, n_1, nvar, limit, idx) ==
  IF st.returned \/ ~(idx < limit) THEN st
  ELSE TupleItems(NoteOrReturnNoting(st, validate_node(st.c, n_1.vals[idx + 1], nvar),
                                     "items: failed to process item"),
                  n_1, nvar, limit, idx + 1)

\* One case of the dispatch: after its validate_node.
CaseEnd(st) == IF st.returned THEN st ELSE [st EXCEPT !.c = src(@, CaseClose)]

TupleCase(st, n_1, var, nvar, idx) ==
  CaseEnd(NoteOrReturnNoting(st, validate_node(src(st.c, CaseOpen(var, nvar, idx)), n_1.vals[idx + 1], nvar),
                             "items: failed to process value"))

\* The fall-through dispatch loop of process_array_value (limit > min_items).
RECURSIVE TupleCases(_, _, _, _, _)
TupleCases(st, n_1, var, nvar, idx) ==
  IF st.returned \/ ~(idx < Size(n_1)) THEN st
  ELSE TupleCases(TupleCase(st, n_1, var, nvar, idx), n_1, var, nvar, idx + 1)

SwitchStart(st, var) == [st EXCEPT !.c = src(@, SwitchOpen(var))]

\* The end of the dispatch, when its loop did not return.
SwitchEnd(st) == IF st.returned THEN st ELSE [st EXCEPT !.c = src(@, BlockClose)]

\* limit, after the comparison with max_items.
TupleLimit(n_1, max_items) == IF Size(n_1) >= max_items THEN max_items ELSE Size(n_1)

\* auto nvar = var_name(); and the warning when the tuple has schemas beyond
\* max_items.
TupleStart(st, n_1, max_items) ==
  [st EXCEPT !.c = var_name(@),
             !.e = IF Size(n_1) >= max_items THEN Warn(@, "items: extra schemas ignored") ELSE @]

\* 'items' is a sequence of schemas.
ItemsTuple(st, n_1, var, min_items, max_items) ==
  IF TupleLimit(n_1, max_items) <= min_items
  THEN TupleItems(TupleStart(st, n_1, max_items), n_1, VarName(st.c), TupleLimit(n_1, max_items), 0)
  ELSE SwitchEnd(TupleCases(SwitchStart(TupleStart(st, n_1, max_items), var), n_1, var, VarName(st.c), 0))

\* 'items' is a schema: after its validate_node.
ItemsSchemaNoted(st, r) ==
  [c |-> src(r.c, BlockClose),
   e |-> IF IsError(NoteAll(st.e, r.e))
         THEN Note(NoteAll(st.e, r.e), Severity(NoteAll(st.e, r.e)), "items: failed processing object value")
         ELSE NoteAll(st.e, r.e),
   returned |-> FALSE]

ItemsSchema(st, n_1, var) ==
  ItemsSchemaNoted(st, validate_node(src(var_name(st.c), ItemsOpen(VarName(st.c), var)), n_1, VarName(st.c)))

\* The statements of process_array_value: the opening of the guard,
ArrayGuarded(st, var, guard_p) ==
  IF guard_p THEN [st EXCEPT !.c = src(@, ArrayGuard(var))] ELSE st

\* the 'minItems' property,
ArrayMin(st, node, var) ==
  IF st.returned \/ ~Has(node, PropName.MIN_ITEMS) THEN st
  ELSE IF ItemsInvalid(node, PropName.MIN_ITEMS)
  THEN ReturnError(st, "minItems: must be a positive integer")
  ELSE [st EXCEPT !.c = emit_min_items_check(@, var, MinItems(node))]

\* the 'maxItems' property,
ArrayMax(st, node, var) ==
  IF st.returned \/ ~Has(node, PropName.MAX_ITEMS) THEN st
  ELSE IF ItemsInvalid(node, PropName.MAX_ITEMS)
  THEN ReturnError(st, "maxItems: must be a positive integer")
  ELSE [st EXCEPT !.c = emit_max_items_check(@, var, MaxItems(node))]

\* the comparison of the two bounds,
ArrayOrder(st, node) ==
  IF st.returned \/ ~(MinItems(node) > MaxItems(node)) THEN st
  ELSE ReturnError(st, "array: minItems is larger than maxItems")

\* "Handle the items in the sequence.",
ArrayItems(st, n_1, var, min_items, max_items) ==
  IF st.returned \/ ~IsDefined(n_1) THEN st
  ELSE IF IsMap(n_1) THEN ItemsSchema(st, n_1, var)
  ELSE IF IsSequence(n_1) THEN ItemsTuple(st, n_1, var, min_items, max_items)
  ELSE ReturnError(st, "items: must be array or object")

\* and the closing of the guard and the trailing note.
ArrayEnd(st, guard_p) ==
  IF st.returned THEN st
  ELSE [st EXCEPT !.c = IF guard_p THEN src(@, BlockClose) ELSE @,
                  !.e = IF @ # NoErrata THEN Note(@, Severity(@), "array: problems processing type") ELSE @]

ArrayStatements(c, node, var, guard_p) ==
  ArrayEnd(ArrayItems(ArrayOrder(ArrayMax(ArrayMin(ArrayGuarded(Enter(c), var, guard_p), node, var),
                                          node, var),
                                 node),
                      Get(node, PropName.ITEMS), var, MinItems(node), MaxItems(node)),
           guard_p)

\* Context::process_array_value
process_array_value(c, node, var, types) ==
  Leave(ArrayStatements(c, node, var, Cardinality(types) # 1 /\ HasTags(node, ArrayPropNames)))

\* ---- validate_node

\* Is the property name a key of value.
Given(value, name) == IsDefined(Get(value, name))

\* TypeSet types, after the 'type' property: process_type_value on it, or
\* types.set() without it.
TypesOf(value) ==
  IF Given(value, PropName.TYPE) THEN process_type_value(Get(value, PropName.TYPE), {})
  ELSE [e |-> NoErrata, types |-> {t \in DOMAIN SchemaTypeLexicon : TRUE}]

\* The statements of validate_node after the '$ref' branch: the 'type' property,
ValidateType(st, value, var) ==
  IF ~Given(value, PropName.TYPE) THEN st
  ELSE IF IsError(TypesOf(value).e)
  THEN [st EXCEPT !.e = Note(TypesOf(value).e, Severity(TypesOf(value).e), "type: unable to process value"),
                  !.returned = TRUE]
  ELSE [st EXCEPT !.c = emit_type_check(@, TypesOf(value).types, var), !.e = TypesOf(value).e]

\* "could be an object",
ValidateObject(st, value, var, types) ==
  IF st.returned \/ "OBJECT" \notin types THEN st
  ELSE NoteOrReturnNoting(st, process_object_value(st.c, value, var, types),
                          "unable to process value as object")

\* "could be an array",
ValidateArray(st, value, var, types) ==
  IF st.returned \/ "ARRAY" \notin types THEN st
  ELSE NoteOrReturnNoting(st, process_array_value(st.c, value, var, types), "unable to process value")

\* 'anyOf',
ValidateAnyOf(st, value, var) ==
  IF st.returned \/ ~Given(value, PropName.ANY_OF) THEN st
  ELSE NoteOrReturn(st, process_any_of_value(st.c, Get(value, PropName.ANY_OF), var))

\* 'oneOf',
ValidateOneOf(st, value, var) ==
  IF st.returned \/ ~Given(value, PropName.ONE_OF) THEN st
  ELSE NoteOrReturn(st, process_one_of_value(st.c, Get(value, PropName.ONE_OF), var))

\* and 'enum'.
ValidateEnum(st, value, var) ==
  IF st.returned \/ ~Given(value, PropName.ENUM) THEN st
  ELSE NoteOrReturn(st, process_enum_value(st.c, Get(value, PropName.ENUM), var))

\* A faulty order of the statements: 'enum' is handled before the others.
ValidateStatementsEnumFirst(c, value, var, types) ==
  ValidateOneOf(
    ValidateAnyOf(
      ValidateArray(
        ValidateObject(ValidateType(ValidateEnum(Enter(c), value, var), value, var), value, var, types),
        value, var, types),
      value, var),
    value, var)

ValidateStatements(c, value, var, types) ==
  ValidateEnum(
    ValidateOneOf(
      ValidateAnyOf(
        ValidateArray(
          ValidateObject(ValidateType(Enter(c), value, var), value, var, types),
          value, var, types),
        value, var),
      value, var),
    value, var)

\* The call of a definition's function.
DefunCall(defun, var) ==
  <<W(<<<<"if (! defun.">>, defun, <<"(erratum, ">>, var, <<", name)) return false;">>, NL>>)>>

\* The '$ref' branch of validate_node: the call of the definition's function,
\* or an ERROR when the reference is not in the table.
ValidateRef(c, zret, n, var) ==
  IF ScalarOf(n) \in DOMAIN c.definitions
  THEN Rv(src(c, DefunCall(c.definitions[ScalarOf(n)], var)), zret)
  ELSE Rv(c, Error(zret, "$ref: not found"))

\* A faulty first return of validate_node: it allocates a variable name.
ValidateNotMapNaming(c) == Rv(var_name(c), Error(NoErrata, "value must be a object"))

\* The first return of validate_node: the value is not a map.
ValidateNotMap(c) == Rv(c, Error(NoErrata, "value must be a object"))

\* Context::validate_node
validate_node(c, value, var) ==
  IF ~IsMap(value) THEN ValidateNotMap(c)
  ELSE IF Given(value, REF_KEY)
  THEN ValidateRef(c, IF Size(value) > 1 THEN Warn(NoErrata, "$ref: ignoring other tags") ELSE NoErrata,
                   Get(value, REF_KEY), var)
  ELSE Leave(ValidateStatements(c, value, var, TypesOf(value).types))

----------------------------------------------------------------------------
(* The path resolver. *)

RECURSIVE FindSlash(_, _)
FindSlash(t, i) ==
  IF i > Len(t) THEN 0 ELSE IF t[i] = "/" THEN i ELSE FindSlash(t, i + 1)

\* TextView::take_prefix_at('/'): the prefix before the first '/', the view
\* keeping what follows it; the whole view when there is no '/'.
TakePrefix(t) ==
  LET p == FindSlash(t, 1)
  IN  IF p > 0 THEN [elt |-> SubSeq(t, 1, p - 1), rest |-> SubSeq(t, p + 1, Len(t))]
      ELSE [elt |-> t, rest |-> <<>>]

\* The while loop of locate, for a cursor node and what is left of the path.
RECURSIVE LocateLoop(_, _, _)
LocateLoop(root, node, location) ==
  IF location = <<>> THEN [ok |-> TRUE, node |-> node, e |-> NoErrata]
  ELSE LET tp == TakePrefix(location)
       IN  IF tp.elt = <<>> \/ tp.elt = <<"#">> THEN LocateLoop(root, root, tp.rest)
           ELSE IF IsMap(node)
                THEN IF Has(node, tp.elt) THEN LocateLoop(root, Get(node, tp.elt), tp.rest)
                     ELSE [ok |-> FALSE, node |-> UndefinedNode,
                           e |-> Error(NoErrata, "locate: is not in the map")]
                ELSE [ok |-> FALSE, node |-> UndefinedNode,
                      e |-> Error(NoErrata, "locate: is not a map")]

\* The resolution of a path from a given root node.
LocateFrom(root, path) == LocateLoop(root, root, path)

\* Context::locate: the cursor starts at, and is reset to, root_node.
locate(c, path) == LocateFrom(c.root_node, path)

----------------------------------------------------------------------------
(* The definition table and the definition-materialisation pass. *)

Letters ==
  {"a", "b", "c", "d", "e", "f", "g", "h", "i", "j", "k", "l", "m", "n", "o", "p", "q",
   "r", "s", "t", "u", "v", "w", "x", "y", "z", "A", "B", "C", "D", "E", "F", "G", "H",
   "I", "J", "K", "L", "M", "N", "O", "P", "Q", "R", "S", "T", "U", "V", "W", "X", "Y", "Z"}

IsAlnum(ch) == ch \in Letters \/ IsDigit(ch)

StartsWith(t, prefix) == Len(t) >= Len(prefix) /\ SubSeq(t, 1, Len(prefix)) = prefix

\* The generated function name of a reference: "v_" and the reference without
\* a leading "#/", every non-alphanumeric character replaced by '_'.
DefunName(ref) ==
  LET name == IF StartsWith(ref, <<"#", "/">>) THEN SubSeq(ref, 3, Len(ref)) ELSE ref
      defun == <<"v", "_">> \o name
  IN  [i \in 1..Len(defun) |-> IF IsAlnum(defun[i]) THEN defun[i] ELSE "_"]

\* definitions[ref] = defun
Define(c, ref, defun) ==
  [c EXCEPT !.definitions = [r \in (DOMAIN @) \cup {ref} |-> IF r = ref THEN defun ELSE @[r]]]

\* The declaration of a definition in the header.
DeclareDefinition(defun) ==
  <<W(<<<<"bool ">>, defun,
        <<" (swoc::Errata &erratum, YAML::Node const& node, std::string_view const& name);">>, NL>>)>>

DefinitionOpen(class_name, defun) ==
  <<W(<<<<"bool ">>, class_name, <<"::Definitions::">>, defun,
        <<" (swoc::Errata &erratum, YAML::Node const& node, std::string_view const& name) {">>, NL>>),
    INDENT>>

DefinitionClose == <<W(<<<<"return true;">>, NL>>), EXDENT, W(<<<<"}">>, NL, NL>>)>>

\* The end of "Generate this definition", after its validate_node.
DefinitionEnd(r) ==
  Rv(src(r.c, DefinitionClose),
     IF ~IsOk(r.e) THEN Info(r.e, "failed to generate definition") ELSE r.e)

\* "Generate this definition": the declaration, and the function around the
\* code of validate_node for the located node.  d is the result of the pass
\* over the located node, which is not used.
GenerateDefinition(d, defun, def_node) ==
  DefinitionEnd(validate_node(src(hdr(Drop(d.c, d.e), DeclareDefinition(defun)),
                                  DefinitionOpen(d.c.class_name, defun)),
                              def_node, NodeVar))

RECURSIVE process_definitions(_, _)

\* The loops of process_definitions over the children of a map or sequence.
RECURSIVE DefinitionsOfChildren(_, _, _, _)
RECURSIVE DefinitionsOfChild(_, _, _, _)
DefinitionsOfChild(r, erratum, vals, i) ==
  DefinitionsOfChildren(r.c, NoteAll(erratum, r.e), vals, i + 1)

DefinitionsOfChildren(c, erratum, vals, i) ==
  IF i > Len(vals) THEN Rv(c, erratum)
  ELSE CHOOSE after \in {DefinitionsOfChild(r, erratum, vals, i) :
                          r \in {process_definitions(c, vals[i])}} : TRUE

\* process_definitions on a reference not yet in the table, after locate.
DefinitionLocated(c, ref, def_rv) ==
  IF def_rv.ok
  THEN GenerateDefinition(process_definitions(Define(c, ref, DefunName(ref)), def_rv.node),
                          DefunName(ref), def_rv.node)
  ELSE Rv(c, Error(NoteAll(NoErrata, def_rv.e), "unable to find ref"))

\* process_definitions on a map with a '$ref' key.
DefinitionOfRef(c, ref) ==
  IF ref \in DOMAIN c.definitions THEN Rv(c, NoErrata)
  ELSE DefinitionLocated(c, ref, locate(c, ref))

\* Context::process_definitions
process_definitions(c, node) ==
  IF IsMap(node) /\ Has(node, REF_KEY) THEN DefinitionOfRef(c, ScalarOf(Get(node, REF_KEY)))
  ELSE IF IsMap(node) \/ IsSequence(node) THEN DefinitionsOfChildren(c, NoErrata, node.vals, 1)
  ELSE Rv(c, NoErrata)

----------------------------------------------------------------------------
(* The driver: process and main. *)

\* The text written to the implementation before the prelude.
SrcIncludes(c) ==
  src(c, <<W(<<<<"#include <functional>">>, NL, <<"#include <array>">>, NL, <<"#include <algorithm>">>, NL,
               <<"#include <iostream>">>, NL, NL, <<"#include \"">>, c.class_name, <<".h\"">>, NL, NL,
               <<"using Validator = std::function<bool (YAML::Node const&)>;">>, NL>>)>>)

\* The opening of the class in the header.
HdrOpenClass(c) ==
  hdr(c, <<W(<<<<"#include <string_view>">>, NL, NL, <<"#include \"swoc/Errata.h\"">>, NL,
               <<"#include \"yaml-cpp/yaml.h\"">>, NL, NL>>),
           W(<<<<"class ">>, c.class_name, <<" {">>, NL, <<"public:">>, NL>>),
           INDENT,
           W(<<<<"swoc::Errata erratum;">>, NL>>),
           W(<<<<"bool operator()(const YAML::Node &n);">>, NL, NL>>)>>)

\* The hand rolled functions of the prelude, by the line that defines each.
PreludeFunctions ==
  <<<<"equal", "(const YAML::Node &lhs, const YAML::Node &rhs)">>,
    <<"bool ", "is_null_type", "(YAML::Node const& node) {">>,
    <<"bool ", "is_bool_type", "(YAML::Node const& node) {">>,
    <<"bool ", "is_array_type", "(YAML::Node const& node) {">>,
    <<"bool ", "is_object_type", "(YAML::Node const& node) {">>,
    <<"bool ", "is_integer_type", "(YAML::Node const& node) {">>,
    <<"bool ", "is_string_type", "(YAML::Node const& node) {">>>>

RECURSIVE PreludeLines(_)
PreludeLines(i) ==
  IF i > Len(PreludeFunctions) THEN <<>>
  ELSE <<PreludeFunctions[i], NL, <<"}">>, NL, NL>> \o PreludeLines(i + 1)

\* ctx.src_file << R"racecar(...)racecar": written to the stream directly, not
\* through out().
WritePrelude(c) ==
  [c EXCEPT !.src.text = @ \o <<NL, <<"namespace {">>, NL, NL>> \o PreludeLines(1)
                           \o <<<<"} // namespace">>, NL, NL>>]

\* The closing of the class in the header.
HdrCloseClass(c) == hdr(c, <<EXDENT, W(<<<<"};">>, NL>>)>>)

\* The first line of the call operator.
OperatorLine(c) == <<<<"bool ">>, c.class_name, <<"::operator()(YAML::Node const& node) {">>, NL>>

SrcOpenOperator(c) ==
  src(c, <<W(OperatorLine(c)),
           INDENT,
           W(<<<<"static constexpr std::string_view name {\"root\"};">>, NL>>),
           W(<<<<"erratum.clear();">>, NL, NL>>)>>)

SrcCloseOperator(c) ==
  src(c, <<W(<<NL, <<"return erratum.severity() < swoc::Severity::ERROR;">>, NL>>),
           EXDENT,
           W(<<<<"}">>, NL>>)>>)

\* main: result.severity() >= Severity::ERROR, as an int.
MainReturn(e) == IF IsError(e) THEN 1 ELSE 0

\* No function has been called.
NoFn == [op |-> "none"]

NoCall == [op |-> "none", node |-> UndefinedNode, var |-> <<>>, types |-> {}, pre |-> Context0, ret |-> NoErrata]

CallOf(op, node, var, types, pre, ret) ==
  [op |-> op, node |-> node, var |-> var, types |-> types, pre |-> pre, ret |-> ret]

----------------------------------------------------------------------------
(* Schema documents. *)

s_a == <<"a">>
s_b == <<"b">>
s_d == <<"d">>
s_x == <<"x">>
s_A == <<"A">>
s_B == <<"B">>
s_foo == <<"f", "o", "o">>
s_child == <<"c", "h", "i", "l", "d">>
s_definitions == <<"d", "e", "f", "i", "n", "i", "t", "i", "o", "n", "s">>
s_Tree == <<"T", "r", "e", "e">>

RefTree == <<"#", "/">> \o s_definitions \o <<"/">> \o s_Tree
RefA == <<"#", "/", "d", "/", "A">>
RefB == <<"#", "/", "d", "/", "B">>
RefRoot == <<"#">>
RefSlash == <<"/">>
RefNope == <<"#", "/", "n", "o", "p", "e">>

Str(t) == ScalarNode(t)
TypeOf(t) == MapNode(<<PropName.TYPE>>, <<t>>)
Ref(r) == MapNode(<<REF_KEY>>, <<Str(r)>>)
Prop(k, v) == MapNode(<<k>>, <<v>>)

StringSchema == TypeOf(Str(SchemaTypeLexicon.STRING))
IntegerSchema == TypeOf(Str(SchemaTypeLexicon.INTEGER))
BadTypeSchema == TypeOf(Str(s_foo))
ArrayOrString == SeqNode(<<Str(SchemaTypeLexicon.ARRAY), Str(SchemaTypeLexicon.STRING)>>)
ObjectOrString == SeqNode(<<Str(SchemaTypeLexicon.OBJECT), Str(SchemaTypeLexicon.STRING)>>)

\* The union schema {type: [string, integer]}.
StringOrIntegerDoc == TypeOf(SeqNode(<<Str(SchemaTypeLexicon.STRING), Str(SchemaTypeLexicon.INTEGER)>>))

\* Scenario 5 of the specification: the self-referential Tree.
TreeBody ==
  MapNode(<<PropName.TYPE, PropName.PROPERTIES>>,
          <<Str(SchemaTypeLexicon.OBJECT), Prop(s_child, Ref(RefTree))>>)
TreeDoc ==
  MapNode(<<REF_KEY, s_definitions>>, <<Str(RefTree), Prop(s_Tree, TreeBody)>>)

\* A references B and B references A.
CycleDoc ==
  MapNode(<<PropName.PROPERTIES, s_d>>,
          <<Prop(s_x, Ref(RefA)),
            MapNode(<<s_A, s_B>>,
                    <<Prop(PropName.PROPERTIES, Prop(s_b, Ref(RefB))),
                      Prop(PropName.PROPERTIES, Prop(s_a, Ref(RefA)))>>)>>)

\* A forward reference to a definition of the document.
ForwardDoc ==
  MapNode(<<PropName.PROPERTIES, s_d>>,
          <<Prop(s_x, Ref(RefA)), Prop(s_A, StringSchema)>>)

\* References made of '#' and '/' only.
RootRefDoc == Ref(RefRoot)
TwoRefsDoc == Prop(PropName.PROPERTIES, MapNode(<<s_a, s_b>>, <<Ref(RefRoot), Ref(RefSlash)>>))
SameRefDoc == Prop(PropName.PROPERTIES, MapNode(<<s_a, s_b>>, <<Ref(RefRoot), Ref(RefRoot)>>))
RefAndTypeDoc == MapNode(<<REF_KEY, PropName.TYPE>>, <<Str(RefRoot), Str(SchemaTypeLexicon.STRING)>>)
NopeDoc == Ref(RefNope)

TupleSchemas == SeqNode(<<StringSchema, IntegerSchema>>)

EmptySchema == MapNode(<<>>, <<>>)
ObjectOrArray == SeqNode(<<Str(SchemaTypeLexicon.OBJECT), Str(SchemaTypeLexicon.ARRAY)>>)

\* A schema with every kind of property, the keys in the reverse of the order
\* in which validate_node handles them; its sub-schemas are empty.
AllPropsDoc ==
  MapNode(<<PropName.ENUM, PropName.ONE_OF, PropName.ANY_OF, PropName.MIN_ITEMS, PropName.REQUIRED,
            PropName.PROPERTIES, PropName.TYPE>>,
          <<SeqNode(<<Str(s_a)>>), SeqNode(<<EmptySchema>>), SeqNode(<<EmptySchema>>), Str(<<"1">>),
            SeqNode(<<Str(s_a)>>), Prop(s_a, EmptySchema), ObjectOrArray>>)

\* A tuple of two schemas with an 'enum' each, as long as 'minItems'.
InlineEnumsDoc ==
  MapNode(<<PropName.TYPE, PropName.ITEMS, PropName.MIN_ITEMS>>,
          <<Str(SchemaTypeLexicon.ARRAY),
            SeqNode(<<Prop(PropName.ENUM, SeqNode(<<Str(s_a)>>)), Prop(PropName.ENUM, SeqNode(<<Str(s_b)>>))>>),
            Str(<<"2">>)>>)

\* 'required' with an element that is not a scalar: a null, a map.
RequiredNullDoc == Prop(PropName.REQUIRED, SeqNode(<<Str(s_a), NullNode>>))
RequiredMapDoc ==
  MapNode(<<PropName.TYPE, PropName.REQUIRED>>,
          <<Str(SchemaTypeLexicon.OBJECT), SeqNode(<<Prop(s_a, Str(s_b))>>)>>)

\* A tuple of two schemas with 'minItems' and 'maxItems' of one.
TupleAtMaxDoc ==
  MapNode(<<PropName.TYPE, PropName.ITEMS, PropName.MIN_ITEMS, PropName.MAX_ITEMS>>,
          <<Str(SchemaTypeLexicon.ARRAY), TupleSchemas, Str(<<"1">>), Str(<<"1">>)>>)

\* Two errors in one schema: 'anyOf' and 'enum' that are not sequences; two
\* sub-schemas of 'anyOf' with an error each.
TwoErrorsDoc == MapNode(<<PropName.ANY_OF, PropName.ENUM>>, <<Str(s_x), Str(s_x)>>)
AnyOfTwoBadDoc == Prop(PropName.ANY_OF, SeqNode(<<BadTypeSchema, Str(s_x)>>))

\* Two properties: the schema of the first has an error, that of the second
\* has none.
EarlierErrorDoc ==
  Prop(PropName.PROPERTIES,
       MapNode(<<s_a, s_b>>,
               <<Prop(PropName.REQUIRED, Str(s_x)), Prop(PropName.ENUM, SeqNode(<<Str(s_a)>>))>>))

Docs ==
  { StringSchema,
    RequiredNullDoc, RequiredMapDoc,
    TupleAtMaxDoc,
    TwoErrorsDoc, AnyOfTwoBadDoc,
    EarlierErrorDoc,
    TypeOf(Str(SchemaTypeLexicon.NUMBER)),
    BadTypeSchema,
    StringOrIntegerDoc,
    TypeOf(SeqNode(<<Str(SchemaTypeLexicon.STRING), Str(SchemaTypeLexicon.STRING)>>)),
    TypeOf(NullNode),
    TypeOf(SeqNode(<<>>)),
    TypeOf(SeqNode([i \in 1..Len(SchemaTypes) |-> Str(SchemaTypeLexicon[SchemaTypes[Len(SchemaTypes) + 1 - i]])])),
    MapNode(<<>>, <<>>),
    NullNode,
    Str(s_x),
    TreeDoc, CycleDoc, ForwardDoc, RootRefDoc, TwoRefsDoc, SameRefDoc, RefAndTypeDoc, NopeDoc,
    MapNode(<<PropName.TYPE, PropName.REQUIRED>>,
            <<Str(SchemaTypeLexicon.OBJECT), SeqNode(<<Str(s_a), Str(s_b)>>)>>),
    Prop(PropName.REQUIRED, Str(s_x)),
    Prop(PropName.PROPERTIES, Str(s_x)),
    Prop(PropName.PROPERTIES, Prop(s_a, Str(s_x))),
    Prop(PropName.PROPERTIES, MapNode(<<s_a, s_b>>, <<BadTypeSchema, StringSchema>>)),
    MapNode(<<PropName.TYPE, PropName.PROPERTIES>>, <<ObjectOrString, Prop(s_a, StringSchema)>>),
    MapNode(<<PropName.TYPE, PropName.REQUIRED>>, <<ObjectOrString, Str(s_x)>>),
    MapNode(<<PropName.TYPE, PropName.MIN_ITEMS, PropName.MAX_ITEMS>>,
            <<Str(SchemaTypeLexicon.ARRAY), Str(<<"5">>), Str(<<"2">>)>>),
    MapNode(<<PropName.TYPE, PropName.MIN_ITEMS, PropName.MAX_ITEMS>>,
            <<Str(SchemaTypeLexicon.ARRAY), Str(<<"1">>), Str(<<"2">>)>>),
    MapNode(<<PropName.TYPE, PropName.MIN_ITEMS>>, <<ArrayOrString, Str(<<"-", "1">>)>>),
    MapNode(<<PropName.TYPE, PropName.MAX_ITEMS>>, <<ArrayOrString, Str(s_x)>>),
    MapNode(<<PropName.TYPE, PropName.ITEMS>>, <<Str(SchemaTypeLexicon.ARRAY), StringSchema>>),
    MapNode(<<PropName.TYPE, PropName.ITEMS>>, <<ArrayOrString, BadTypeSchema>>),
    MapNode(<<PropName.TYPE, PropName.ITEMS>>, <<ArrayOrString, Str(s_x)>>),
    MapNode(<<PropName.TYPE, PropName.ITEMS>>, <<Str(SchemaTypeLexicon.ARRAY), TupleSchemas>>),
    MapNode(<<PropName.TYPE, PropName.ITEMS>>,
            <<Str(SchemaTypeLexicon.ARRAY), SeqNode(<<StringSchema, BadTypeSchema>>)>>),
    MapNode(<<PropName.TYPE, PropName.ITEMS, PropName.MIN_ITEMS>>,
            <<Str(SchemaTypeLexicon.ARRAY), TupleSchemas, Str(<<"2">>)>>),
    MapNode(<<PropName.TYPE, PropName.ITEMS, PropName.MAX_ITEMS>>,
            <<Str(SchemaTypeLexicon.ARRAY), TupleSchemas, Str(<<"1">>)>>),
    Prop(PropName.ANY_OF, SeqNode(<<StringSchema, IntegerSchema>>)),
    Prop(PropName.ANY_OF, SeqNode(<<BadTypeSchema, StringSchema>>)),
    Prop(PropName.ANY_OF, SeqNode(<<>>)),
    Prop(PropName.ANY_OF, Str(s_x)),
    Prop(PropName.ONE_OF, SeqNode(<<StringSchema, IntegerSchema>>)),
    Prop(PropName.ONE_OF, SeqNode(<<BadTypeSchema>>)),
    Prop(PropName.ONE_OF, Str(s_x)),
    MapNode(<<PropName.ONE_OF, PropName.ENUM>>, <<SeqNode(<<>>), SeqNode(<<Str(s_a)>>)>>),
    Prop(PropName.ENUM, SeqNode(<<Str(s_a), Str(<<"1">>)>>)),
    Prop(PropName.ENUM, Str(s_x)),
    Prop(PropName.ENUM, SeqNode(<<>>)),
    InlineEnumsDoc,
    AllPropsDoc }

----------------------------------------------------------------------------
(* Spec: one run of process and main on a document. *)

OutIdle ==
  /\ o_sink = Sink0
  /\ o_log = <<>>
  /\ o_n = 0

Init ==
  /\ pc = "load"
  /\ doc \in Docs
  /\ ctx = Context0
  /\ call = NoCall
  /\ result = NoErrata
  /\ exit_code = -1
  /\ fn = NoFn
  /\ OutIdle

\* process returns an Errata to main.
Return(c, e) ==
  /\ ctx' = c
  /\ result' = e
  /\ pc' = "main"

\* The schema file is loaded and parsed.
Load ==
  /\ pc = "load"
  /\ ctx' = [ctx EXCEPT !.notes = Info(@, "loaded schema file")]
  /\ pc' = "open"
  /\ UNCHANGED <<doc, call, result, exit_code, out_vars, fn>>

\* YAML::Load throws.
LoadFails ==
  /\ pc = "load"
  /\ LET e == Error(Info(ctx.notes, "loaded schema file"), "loading failed")
     IN  Return([ctx EXCEPT !.notes = e], e)
  /\ UNCHANGED <<doc, call, exit_code, out_vars, fn>>

\* One of the output files cannot be opened.
OpenFails ==
  /\ pc = "open"
  /\ LET e == Error(ctx.notes, "failed to open output file")
     IN  Return([ctx EXCEPT !.notes = e], e)
  /\ UNCHANGED <<doc, call, exit_code, out_vars, fn>>

RootNotMap ==
  /\ pc = "open"
  /\ ~IsMap(doc)
  /\ LET e == Error(ctx.notes, "root node must be a map")
     IN  Return([ctx EXCEPT !.notes = e], e)
  /\ UNCHANGED <<doc, call, exit_code, out_vars, fn>>

\* Both files are open and the root is a map: the includes, the opening of
\* the class and the prelude are written.
Prelude ==
  /\ pc = "open"
  /\ IsMap(doc)
  /\ ctx' = WritePrelude(HdrOpenClass(SrcIncludes(ctx)))
  /\ pc' = "definitions"
  /\ UNCHANGED <<doc, call, result, exit_code, out_vars, fn>>

\* ctx.process_definitions(root); its Errata is not used.
Definitions ==
  /\ pc = "definitions"
  /\ LET r == process_definitions(ctx, doc)
     IN  /\ ctx' = Drop(r.c, r.e)
         /\ call' = CallOf("process_definitions", doc, <<>>, {}, ctx, r.e)
  /\ pc' = "class"
  /\ UNCHANGED <<doc, result, exit_code, out_vars, fn>>

CloseClass ==
  /\ pc = "class"
  /\ ctx' = HdrCloseClass(ctx)
  /\ pc' = "operator"
  /\ UNCHANGED <<doc, call, result, exit_code, out_vars, fn>>

OpenOperator ==
  /\ pc = "operator"
  /\ ctx' = SrcOpenOperator(ctx)
  /\ pc' = "validate"
  /\ UNCHANGED <<doc, call, result, exit_code, out_vars, fn>>

\* ctx.validate_node(root, "node"); its Errata is not used.
ValidateRoot ==
  /\ pc = "validate"
  /\ LET r == validate_node(ctx, doc, NodeVar)
     IN  /\ ctx' = Drop(r.c, r.e)
         /\ call' = CallOf("validate_node", doc, NodeVar, {}, ctx, r.e)
  /\ pc' = "close"
  /\ UNCHANGED <<doc, result, exit_code, out_vars, fn>>

\* The end of the call operator is written and process returns ctx.notes.
CloseOperator ==
  /\ pc = "close"
  /\ LET c == SrcCloseOperator(ctx) IN Return(c, c.notes)
  /\ UNCHANGED <<doc, call, exit_code, out_vars, fn>>

Main ==
  /\ pc = "main"
  /\ exit_code' = MainReturn(result)
  /\ pc' = "exit"
  /\ UNCHANGED <<doc, ctx, call, result, out_vars, fn>>

Next ==
  \/ Load \/ LoadFails \/ OpenFails \/ RootNotMap \/ Prelude \/ Definitions
  \/ CloseClass \/ OpenOperator \/ ValidateRoot \/ CloseOperator \/ Main

Spec == Init /\ [][Next]_vars

----------------------------------------------------------------------------
(* What a run has written, read back from the sinks. *)

\* Number of places of text where the tokens of pattern follow one another.
Occurrences(text, pattern) ==
  Cardinality({i \in 1..(Len(text) - Len(pattern) + 1) :
                 SubSeq(text, i, i + Len(pattern) - 1) = pattern})

\* What a call has added to the implementation sink, and the number of places
\* of a text that hold a token.
Added(pre, post) == SubSeq(post.src.text, Len(pre.src.text) + 1, Len(post.src.text))
Count(text, token) == Cardinality({i \in 1..Len(text) : text[i] = token})

\* Number of function definitions "bool <class>::Definitions::<f> (" in the
\* implementation sink, for one name and for any name.
FunctionsNamed(c, f) ==
  Occurrences(c.src.text, <<<<"bool ">>, c.class_name, <<"::Definitions::">>, f>>)
DefinitionFunctions(c) ==
  Occurrences(c.src.text, <<<<"bool ">>, c.class_name, <<"::Definitions::">>>>)

\* Places of the header sink at which the declaration "bool <f> (" starts.
DeclarationsOf(c, f) ==
  {i \in 1..(Len(c.hdr.text) - 1) : c.hdr.text[i] = <<"bool ">> /\ c.hdr.text[i + 1] = f}

\* Places of the header sink at which a nested Definitions struct is opened.
StructOpenings(c) ==
  {i \in 1..Len(c.hdr.text) : c.hdr.text[i] = <<"struct Definitions {">>}

\* Number of calls "defun.<f>(" in the implementation sink.
CallsOf(c, f) == Occurrences(c.src.text, <<<<"if (! defun.">>, f>>)

\* The reference strings of every '$ref' of a document.
RECURSIVE RefsOf(_)
RefsOf(n) ==
  (IF IsMap(n) /\ Has(n, REF_KEY) THEN {ScalarOf(Get(n, REF_KEY))} ELSE {})
  \cup UNION {RefsOf(n.vals[i]) : i \in 1..Len(n.vals)}

\* An ERROR was recorded during the run: in the run's notes, or in an Errata
\* that a caller did not use.
ErrorRecorded == IsError(ctx.notes) \/ IsError(ctx.dropped)

\* The run went through process_definitions and the walker to its end.
Compiled == pc = "exit" /\ call.op = "validate_node"

\* C1: the exit code is 0 iff no ERROR was recorded at any point of the
\* compile, by the definition pass or by the walker.
C1_ExitCodeIffNoError ==
  pc = "exit" => (exit_code = 0 <=> ~ErrorRecorded)

\* C2: after a complete run, for every entry (r, f) of the definition table
\* the implementation sink holds exactly one function definition named f.
C2_OneFunctionPerEntry ==
  Compiled => \A r \in DOMAIN ctx.definitions : FunctionsNamed(ctx, ctx.definitions[r]) = 1

\* C3: for the schema in which A references B and B references A, the
\* definition pass ends with exactly one function emitted for A and one for B.
C3_CycleOneFunctionEach ==
  (doc = CycleDoc /\ pc = "class") =>
    /\ FunctionsNamed(ctx, DefunName(RefA)) = 1
    /\ FunctionsNamed(ctx, DefunName(RefB)) = 1

\* C4: when the first line of the call operator has been written, every
\* '$ref' of the schema that resolves in the document has a table entry and
\* its function is in the implementation sink.
C4_RefsMaterialisedBeforeRoot ==
  pc = "validate" =>
    \A r \in RefsOf(doc) :
      LocateFrom(doc, r).ok =>
        /\ r \in DOMAIN ctx.definitions
        /\ FunctionsNamed(ctx, DefunName(r)) >= 1

\* C6: after a run the header holds a nested Definitions struct, and the
\* declaration of every table entry's function comes after its opening.
C6_DeclarationsInDefinitionsStruct ==
  Compiled =>
    \E i \in StructOpenings(ctx) :
      \A r \in DOMAIN ctx.definitions :
        \E j \in DeclarationsOf(ctx, ctx.definitions[r]) : j > i

v__definitions_Tree == <<"v", "_", "_">> \o s_definitions \o <<"_">> \o s_Tree

\* C7: compiling the self-referential Tree schema succeeds and emits exactly
\* one definition function, named v__definitions_Tree, which calls itself.
C7_TreeOneSelfCallingFunction ==
  (doc = TreeDoc /\ Compiled) =>
    /\ exit_code = 0
    /\ DefinitionFunctions(ctx) = 1
    /\ FunctionsNamed(ctx, v__definitions_Tree) = 1
    /\ CallsOf(ctx, v__definitions_Tree) >= 1

\* ---- local declarations of the emitted code

\* The identifier a token of the implementation declares as a local, <<>> for
\* any other token: the fixed locals of 'anyOf', 'oneOf' and 'enum', and the
\* name that follows "auto ".
FixedLocals ==
  {<<"swoc::Errata any_of_err;">>, <<"> any_of_verify = {">>, <<"swoc::Errata one_of_err;">>,
   <<"> one_of_verify = {">>, <<"unsigned one_of_count = 0;">>, <<"bool enum_match_p = false;">>,
   <<"YAML::Emitter yem;">>}

Declared(text, k) ==
  IF text[k] \in FixedLocals THEN text[k]
  ELSE IF k > 1 /\ text[k - 1] = <<"auto ">> THEN text[k]
  ELSE <<>>

\* The places of a text where a line that is not empty starts.
LineStarts(text) ==
  {p \in 1..Len(text) : text[p] # NL /\ (p = 1 \/ text[p - 1] = NL)}

\* The start of the line of place k, and the depth of a line: the number of
\* indentation units at its start.
LineOf(text, k) ==
  CHOOSE p \in LineStarts(text) : p <= k /\ \A q \in LineStarts(text) : q <= k => q <= p

DepthOf(text, p) ==
  Cardinality({i \in p..Len(text) : \A j \in p..i : text[j] = IND})

\* Two declarations share a block: they are at the same depth and no line
\* between them is shallower, that is no block they are in was closed.
SameBlock(text, k1, k2) ==
  /\ DepthOf(text, LineOf(text, k1)) = DepthOf(text, LineOf(text, k2))
  /\ \A p \in LineStarts(text) :
        (k1 < p /\ p <= k2) => DepthOf(text, p) >= DepthOf(text, LineOf(text, k1))

Declarations(text) == {k \in 1..Len(text) : Declared(text, k) # <<>>}

\* C11: in the implementation of a complete run no two local declarations of
\* one block of one validator function use the same identifier.
C11_NoDuplicateLocals ==
  Compiled =>
    \A k1, k2 \in Declarations(ctx.src.text) :
      (k1 < k2 /\ Declared(ctx.src.text, k1) = Declared(ctx.src.text, k2))
        => ~SameBlock(ctx.src.text, k1, k2)

\* ---- the type check of a union

\* A predicate applied to the root variable.
OnNode(func) == <<<<func>>, <<"(">>, NodeVar, <<")">>>>

\* The error message of the union names 'string' and 'integer'.
NamesBoth(text) ==
  /\ Occurrences(text, <<<<"'">>, SchemaTypeLexicon.STRING, <<"'">>>>) = 1
  /\ Occurrences(text, <<<<"'">>, SchemaTypeLexicon.INTEGER, <<"'">>>>) = 1

\* C17, as claimed: for the schema {type: [string, integer]} the emitted type
\* check is the disjunction is_string_type(node) || is_integer_type(node), in
\* that order, and its error message names both 'string' and 'integer'.
C17_UnionInSchemaOrder ==
  (doc = StringOrIntegerDoc /\ Compiled) =>
    /\ Occurrences(ctx.src.text,
                   <<<<"if (! ">>, <<"(">>>> \o OnNode("is_string_type") \o <<<<" || ">>>>
                   \o OnNode("is_integer_type") \o <<<<")) {">>>>) = 1
    /\ NamesBoth(ctx.src.text)

\* C17, amended: the disjunction is is_integer_type(node) ||
\* is_string_type(node), the predicates in the order of the SchemaType
\* enumeration, and the error message names both 'string' and 'integer'.
C17_UnionInEnumOrder ==
  (doc = StringOrIntegerDoc /\ Compiled) =>
    /\ Occurrences(ctx.src.text,
                   <<<<"if (! ">>, <<"(">>>> \o OnNode("is_integer_type") \o <<<<" || ">>>>
                   \o OnNode("is_string_type") \o <<<<")) {">>>>) = 1
    /\ Count(ctx.src.text, <<" || ">>) = 1
    /\ NamesBoth(ctx.src.text)

\* The run on the union schema has ended.
C17_Witness == doc = StringOrIntegerDoc /\ Compiled /\ exit_code = 0

\* ---- the runtime predicates

\* The predicates the walker emits calls to: one for each schema type, and
\* equal for 'enum'.
RuntimePredicates == {SchemaTypeCheck[t] : t \in DOMAIN SchemaTypeCheck} \cup {<<"equal">>}

\* The function a line of the implementation defines at file scope, <<>> when
\* it is not the first line of a hand rolled function.
DefinedBy(line) ==
  IF Len(line) = 3 /\ line[1] = "bool " /\ line[3] = "(YAML::Node const& node) {" THEN <<line[2]>>
  ELSE IF Len(line) = 2 /\ line[2] = "(const YAML::Node &lhs, const YAML::Node &rhs)" THEN <<line[1]>>
  ELSE <<>>

\* The places of the implementation where the body of a validator starts: a
\* definition's function or the call operator.
ValidatorBodies(c) ==
  {k \in 1..Len(c.src.text) :
     /\ c.src.text[k] = <<"bool ">>
     /\ k + 2 <= Len(c.src.text)
     /\ c.src.text[k + 1] = c.class_name
     /\ c.src.text[k + 2] \in {<<"::Definitions::">>, <<"::operator()(YAML::Node const& node) {">>}}

\* C12: every runtime predicate the walker can emit a call to is defined in
\* the implementation before the body of any validator.
C12_PredicatesDefinedBeforeBodies ==
  \A k \in ValidatorBodies(ctx) :
    \A p \in RuntimePredicates :
      \E j \in 1..(k - 1) : DefinedBy(ctx.src.text[j]) = p

----------------------------------------------------------------------------
(* SpecWalk: one call of a walker function, on a schema node, in a context *)
(* the run can be in when the function is called.                          *)

\* The context when process calls validate_node on the root of a document
\* without a '$ref'.
LoadedContext == [Context0 EXCEPT !.notes = Info(@, "loaded schema file")]
PreludeContext == WritePrelude(HdrOpenClass(SrcIncludes(LoadedContext)))
OperatorContext == SrcOpenOperator(HdrCloseClass(PreludeContext))

\* The same for a document with the reference "#".
DefinedContext ==
  SrcOpenOperator(HdrCloseClass(process_definitions(PreludeContext, RootRefDoc).c))

\* The context of the nested validate_node of a sub-schema of 'anyOf'.
NestedContext ==
  src(src(var_name(OperatorContext), AnyOfOpen(SeqNode(<<StringSchema>>))), AnyOfLambda)

WalkContexts == {OperatorContext, DefinedContext, NestedContext}

\* The nodes a walker function is called on: schemas, and the values of
\* 'anyOf', 'oneOf', 'enum'.
WalkNodes ==
  Docs \cup
  { SeqNode(<<>>),
    SeqNode(<<StringSchema, IntegerSchema>>),
    SeqNode(<<BadTypeSchema, StringSchema>>),
    SeqNode(<<Str(s_a), Str(s_b)>>),
    SeqNode(<<Str(s_x), StringSchema>>),
    Get(AnyOfTwoBadDoc, PropName.ANY_OF) }

WalkVars == {NodeVar, <<"node_", "1">>}

AllTypes == {t \in DOMAIN SchemaTypeLexicon : TRUE}
WalkTypes == {{"OBJECT"}, {"ARRAY"}, {"OBJECT", "STRING"}, {"ARRAY", "STRING"}, AllTypes}

WalkInit ==
  /\ pc = "walk"
  /\ doc \in WalkNodes
  /\ ctx \in WalkContexts
  /\ call = NoCall
  /\ result = NoErrata
  /\ exit_code = -1
  /\ fn = NoFn
  /\ OutIdle

\* The call is made: the context it leaves and what it returned.
Called(op, var, types, r) ==
  /\ ctx' = r.c
  /\ call' = CallOf(op, doc, var, types, ctx, r.e)
  /\ pc' = "walked"
  /\ UNCHANGED <<doc, result, exit_code, out_vars, fn>>

WalkValidateNode ==
  /\ pc = "walk"
  /\ \E var \in WalkVars : Called("validate_node", var, {}, validate_node(ctx, doc, var))

\* validate_node calls process_object_value on a map, with object in the types.
WalkObjectValue ==
  /\ pc = "walk"
  /\ IsMap(doc)
  /\ \E var \in WalkVars, types \in WalkTypes :
       /\ "OBJECT" \in types
       /\ Called("process_object_value", var, types, process_object_value(ctx, doc, var, types))

\* validate_node calls process_array_value on a map, with array in the types.
WalkArrayValue ==
  /\ pc = "walk"
  /\ IsMap(doc)
  /\ \E var \in WalkVars, types \in WalkTypes :
       /\ "ARRAY" \in types
       /\ Called("process_array_value", var, types, process_array_value(ctx, doc, var, types))

WalkAnyOfValue ==
  /\ pc = "walk"
  /\ \E var \in WalkVars : Called("process_any_of_value", var, {}, process_any_of_value(ctx, doc, var))

WalkOneOfValue ==
  /\ pc = "walk"
  /\ \E var \in WalkVars : Called("process_one_of_value", var, {}, process_one_of_value(ctx, doc, var))

WalkEnumValue ==
  /\ pc = "walk"
  /\ \E var \in WalkVars : Called("process_enum_value", var, {}, process_enum_value(ctx, doc, var))

\* validate_node calls emit_type_check with the types of an accepted 'type'.
WalkEmitTypeCheck ==
  /\ pc = "walk"
  /\ IsMap(doc) /\ Given(doc, PropName.TYPE) /\ ~IsError(TypesOf(doc).e)
  /\ \E var \in WalkVars :
       Called("emit_type_check", var, TypesOf(doc).types,
              Rv(emit_type_check(ctx, TypesOf(doc).types, var), NoErrata))

\* process_object_value calls emit_required_check on a sequence.
WalkEmitRequiredCheck ==
  /\ pc = "walk"
  /\ IsSequence(doc)
  /\ \E var \in WalkVars :
       Called("emit_required_check", var, {}, Rv(emit_required_check(ctx, doc, var), NoErrata))

\* process_array_value calls the two size checks with a parsed bound.
WalkEmitItemsCheck ==
  /\ pc = "walk"
  /\ IsMap(doc)
  /\ \E var \in WalkVars :
       \/ /\ Has(doc, PropName.MIN_ITEMS) /\ ~ItemsInvalid(doc, PropName.MIN_ITEMS)
          /\ Called("emit_min_items_check", var, {},
                    Rv(emit_min_items_check(ctx, var, MinItems(doc)), NoErrata))
       \/ /\ Has(doc, PropName.MAX_ITEMS) /\ ~ItemsInvalid(doc, PropName.MAX_ITEMS)
          /\ Called("emit_max_items_check", var, {},
                    Rv(emit_max_items_check(ctx, var, MaxItems(doc)), NoErrata))

WalkNext ==
  \/ WalkValidateNode \/ WalkObjectValue \/ WalkArrayValue
  \/ WalkAnyOfValue \/ WalkOneOfValue \/ WalkEnumValue
  \/ WalkEmitTypeCheck \/ WalkEmitRequiredCheck \/ WalkEmitItemsCheck

SpecWalk == WalkInit /\ [][WalkNext]_vars

\* C9: for every call of validate_node and of each process_* / emit_* helper,
\* on every path through it, the indent depth of the implementation sink at
\* return equals the depth at entry, and is never negative.
C9_IndentBalanced ==
  call.op # "none" =>
    /\ ctx.src.indent = call.pre.src.indent
    /\ ctx.src.indent >= 0

\* C10: validate_node called on a node that is not a map returns exactly one
\* ERROR and changes nothing else: no text in either sink, and the indent
\* depths, the start-of-line flags, the variable-name counter and the
\* definition table are as they were.
C10_NonMapOneErrorNothingElse ==
  (call.op = "validate_node" /\ ~IsMap(call.node)) =>
    /\ Len(call.ret) = 1
    /\ call.ret[1].sev = "ERROR"
    /\ ctx = call.pre

\* validate_node has returned from a call on a sequence, made at a depth above
\* zero with text in both sinks and a definition in the table.
C10_Witness ==
  /\ pc = "walked"
  /\ call.op = "validate_node"
  /\ IsSequence(call.node)
  /\ call.pre.src.indent > 0
  /\ call.pre.src.text # <<>>
  /\ call.pre.hdr.text # <<>>
  /\ DOMAIN call.pre.definitions # {}

\* Number of calls of a predicate on a variable in a text.
PredicateCalls(text, func, var) ==
  Cardinality({i \in 1..(Len(text) - 2) :
                 text[i] = func /\ text[i + 1] = <<"(">> /\ text[i + 2] = var})

\* C16: the type check emit_type_check writes calls the predicate of each
\* member of the type set once and no other predicate, and its error
\* message names each member of the set once and no other type.
C16_TypeCheckOnePerMember ==
  call.op = "emit_type_check" =>
    \A t \in DOMAIN SchemaTypeCheck :
      /\ PredicateCalls(Added(call.pre, ctx), SchemaTypeCheck[t], call.var)
           = (IF t \in call.types THEN 1 ELSE 0)
      /\ Count(Added(call.pre, ctx), SchemaTypeCheck[t]) = (IF t \in call.types THEN 1 ELSE 0)
      /\ Count(Added(call.pre, ctx), SchemaTypeLexicon[t]) = (IF t \in call.types THEN 1 ELSE 0)

\* emit_type_check has written the check of a set of several types inside a
\* block.
C16_Witness ==
  /\ pc = "walked"
  /\ call.op = "emit_type_check"
  /\ Cardinality(call.types) > 2
  /\ call.pre.src.indent > 0
  /\ Len(Added(call.pre, ctx)) > 0

\* ---- the order of the code of one node

\* The first token of the code of each part of a node, in the order in which
\* validate_node handles the parts: type check, object properties, array
\* properties, 'anyOf', 'oneOf', 'enum'.
PartMarkers ==
  <<{<<"// validate value type">>},
    {<<"// check for required tags">>, <<"auto ">>},
    {<<".size() < ">>, <<".size() > ">>},
    {<<"swoc::Errata any_of_err;">>},
    {<<"swoc::Errata one_of_err;">>},
    {<<"bool enum_match_p = false;">>}>>

\* Every sub-schema of the node is empty, so that all code is that of the
\* node itself.
AllEmpty(n) == \A i \in 1..Len(n.vals) : n.vals[i] = EmptySchema
Flat(node) ==
  /\ ~Has(node, PropName.ITEMS)
  /\ Has(node, PropName.PROPERTIES) => AllEmpty(Get(node, PropName.PROPERTIES))
  /\ Has(node, PropName.ANY_OF) => AllEmpty(Get(node, PropName.ANY_OF))
  /\ Has(node, PropName.ONE_OF) => AllEmpty(Get(node, PropName.ONE_OF))

\* The same map with its keys in the reverse order.
Reversed(node) ==
  MapNode([i \in 1..Size(node) |-> node.keys[Size(node) + 1 - i]],
          [i \in 1..Size(node) |-> node.vals[Size(node) + 1 - i]])

\* A text without its indentation.
Unindented(text) == SelectSeq(text, LAMBDA t : t # IND)

\* With '$ref': nothing is written but at most the one call of a definition's
\* function, and a WARN is returned when the node has other properties.
RefOnly ==
  /\ \/ Added(call.pre, ctx) = <<>>
     \/ \E r \in DOMAIN call.pre.definitions :
          Unindented(Added(call.pre, ctx))
            = <<<<"if (! defun.">>, call.pre.definitions[r], <<"(erratum, ">>, call.var,
                <<", name)) return false;">>, NL>>
  /\ Size(call.node) > 1 => \E i \in 1..Len(call.ret) : call.ret[i].sev = "WARN"

\* Without '$ref': the code of the parts is in the fixed order,
PartsInOrder ==
  Flat(call.node) =>
    \A i, j \in 1..Len(PartMarkers) :
      i < j =>
        \A p, q \in 1..Len(Added(call.pre, ctx)) :
          (Added(call.pre, ctx)[p] \in PartMarkers[i] /\ Added(call.pre, ctx)[q] \in PartMarkers[j])
            => p < q

\* and is the same for the keys in another order.
KeyOrderFree ==
  validate_node(call.pre, Reversed(call.node), call.var).c.src = ctx.src

\* C18: with '$ref' validate_node writes at most the single call of the
\* definition's function and nothing for any other property, with a WARN
\* when other properties coexist; without it the code of the node is in the
\* order type check, object properties, array properties, anyOf, oneOf,
\* enum, whatever the order of the keys of the schema map.
C18_DispatchOrder ==
  (call.op = "validate_node" /\ IsMap(call.node)) =>
    IF Given(call.node, REF_KEY) THEN RefOnly ELSE PartsInOrder /\ KeyOrderFree

\* validate_node has returned from a schema that has every part, its keys in
\* the reverse order, and has written the code of all six parts.
C18_Witness ==
  /\ pc = "walked"
  /\ call.op = "validate_node"
  /\ call.node = AllPropsDoc
  /\ \A i \in 1..Len(PartMarkers) :
        \E p \in 1..Len(Added(call.pre, ctx)) : Added(call.pre, ctx)[p] \in PartMarkers[i]

\* ---- the guard of the object checks

\* The first line of the guard: the object predicate applied to a variable.
ObjectGuardLine(var) == <<<<"if (">>, <<"is_object_type">>, <<"(">>, var, <<")) {">>, NL>>

\* The same with the predicate and the variable in each other's place.
ObjectGuardSwapped(var) == <<<<"if (">>, var, <<"(">>, <<"is_object_type">>, <<")) {">>, NL>>

\* What a text is wrapped in: it starts with the first line of the guard and
\* ends with the closing brace.
Wrapped(text, line) ==
  /\ Len(text) >= Len(line) + 2
  /\ SubSeq(text, 1, Len(line)) = line
  /\ SubSeq(text, Len(text) - 1, Len(text)) = <<<<"}">>, NL>>

\* C20: process_object_value wraps the object checks in the guard
\* if (is_object_type(var)) { ... } when the types are object and at least
\* one other and the node has 'required' or 'properties'; with object as the
\* only type it writes no guard; without the two properties it writes
\* nothing.
C20_ObjectGuard ==
  (call.op = "process_object_value" /\ ~IsError(call.ret)) =>
    LET text == Unindented(Added(call.pre, ctx))
    IN  IF ~HasTags(call.node, ObjectPropNames) THEN text = <<>>
        ELSE IF Cardinality(call.types) = 1
        THEN /\ Occurrences(text, ObjectGuardLine(call.var)) = 0
             /\ Occurrences(text, ObjectGuardSwapped(call.var)) = 0
             /\ text # <<>>
        ELSE Wrapped(text, ObjectGuardLine(call.var))

\* Number of size-check statements in a text: the comparisons of .size() that
\* emit_min_items_check and emit_max_items_check write.
SizeChecks(text) ==
  Occurrences(text, <<<<".size() < ">>>>) + Occurrences(text, <<<<".size() > ">>>>)

\* 'minItems' and 'maxItems' both parse and the first is above the second.
MinAboveMax(node) ==
  /\ Has(node, PropName.MIN_ITEMS) /\ ~ItemsInvalid(node, PropName.MIN_ITEMS)
  /\ Has(node, PropName.MAX_ITEMS) /\ ~ItemsInvalid(node, PropName.MAX_ITEMS)
  /\ MinItems(node) > MaxItems(node)

\* C15: when 'minItems' and 'maxItems' both parse and minItems > maxItems,
\* process_array_value returns the ERROR about the two and has written no
\* size check, neither that of minItems nor that of maxItems.
C15_NoSizeChecksWhenMinAboveMax ==
  (call.op = "process_array_value" /\ MinAboveMax(call.node)) =>
    /\ \E i \in 1..Len(call.ret) :
          call.ret[i] = [sev |-> "ERROR", msg |-> "array: minItems is larger than maxItems"]
    /\ SizeChecks(ctx.src.text) = SizeChecks(call.pre.src.text)

----------------------------------------------------------------------------
(* SpecOut: any sequence of indent / exdent / write on one sink. *)

Chars == {<<"a">>, NL}

Texts == UNION {[1..n -> Chars] : n \in 0..MaxLen}

\* The characters of a written text, each tagged with the depth in force.
Tagged(text, d) == [i \in 1..Len(text) |-> [c |-> text[i], d |-> d]]

RunIdle ==
  /\ pc = "idle"
  /\ doc = NullNode
  /\ ctx = Context0
  /\ call = NoCall
  /\ result = NoErrata
  /\ exit_code = -1
  /\ fn = NoFn

OutInit ==
  /\ o_sink = Sink0
  /\ o_log = <<>>
  /\ o_n = 0
  /\ RunIdle

OutIndent ==
  /\ o_n < MaxOps
  /\ o_sink.indent < MaxDepth
  /\ o_sink' = Indent(o_sink)
  /\ o_n' = o_n + 1
  /\ UNCHANGED <<o_log, run_vars>>

OutExdent ==
  /\ o_n < MaxOps
  /\ o_sink.indent > -1
  /\ o_sink' = Exdent(o_sink)
  /\ o_n' = o_n + 1
  /\ UNCHANGED <<o_log, run_vars>>

OutWrite ==
  /\ o_n < MaxOps
  /\ \E text \in Texts :
       /\ o_n' = o_n + 1
       /\ o_sink' = Out(o_sink, text)
       /\ o_log' = o_log \o Tagged(text, o_sink.indent)
  /\ UNCHANGED run_vars

OutNext == OutIndent \/ OutExdent \/ OutWrite

SpecOut == OutInit /\ [][OutNext]_vars

----------------------------------------------------------------------------
(* SpecOut, claim C8: what the stream holds after any sequence of          *)
(* operations, computed character by character from the log of what was    *)
(* written.                                                                *)

\* depth x two spaces
Spaces(d) == [k \in 1..d |-> IND]

\* The stream for the first n characters of the log: a newline is copied; any
\* other character is copied, after the indentation of its own depth when it
\* is the first character of its line.
RECURSIVE Render(_, _)
Render(log, n) ==
  IF n = 0 THEN <<>>
  ELSE IF log[n].c = NL THEN Append(Render(log, n - 1), NL)
  ELSE IF n = 1 \/ log[n - 1].c = NL
       THEN Render(log, n - 1) \o Spaces(log[n].d) \o <<log[n].c>>
       ELSE Append(Render(log, n - 1), log[n].c)

\* C8: the stream is the written text with the indentation of the depth in
\* force inserted once before the first character of every non-empty line
\* and nowhere else, and start-of-line is set exactly when nothing has been
\* written or the last character written was a newline.
C8_StreamIsIndentedText ==
  /\ o_sink.text = Render(o_log, Len(o_log))
  /\ o_sink.sol = (o_log = <<>> \/ o_log[Len(o_log)].c = NL)

\* An empty line, a line that starts at a depth above zero, and a write that
\* ended mid-line followed by a write that continues the line.
C8_Witness ==
  /\ \E i \in 1..Len(o_log) : o_log[i].c = NL /\ (i = 1 \/ o_log[i - 1].c = NL)
  /\ \E i \in 1..Len(o_log) :
        o_log[i].c # NL /\ o_log[i].d > 0 /\ (i = 1 \/ o_log[i - 1].c = NL)
  /\ \E i \in 2..Len(o_log) :
        o_log[i].c # NL /\ o_log[i - 1].c # NL /\ o_log[i].d # o_log[i - 1].d
  /\ ~o_sink.sol

----------------------------------------------------------------------------
(* The prelude's equal (src/src/equal.cc, and the same text in the prelude  *)
(* of canner.cc), on the nodes of this module.                              *)

MaxSize == 2     \* SpecEqual: number of children of a sequence or map

\* A return statement was reached with a value, or the statement fell through.
Returns(v) == [returned |-> TRUE, value |-> v]
FallsThrough == [returned |-> FALSE, value |-> FALSE]

RECURSIVE equal(_, _)

\* for (int i = 0, n = lhs.size(); i < n; ++i): the iteration returns either way.
EqualSequenceLoop(lhs, rhs, i, n) ==
  IF i < n
  THEN IF ~equal(lhs.vals[i + 1], rhs.vals[i + 1]) THEN Returns(FALSE) ELSE Returns(TRUE)
  ELSE FallsThrough

\* for (const auto &pair : lhs): the iteration returns either way.
EqualMapLoop(lhs, rhs, i, n) ==
  IF i < n
  THEN IF ~Has(rhs, lhs.keys[i + 1]) \/ ~equal(lhs.vals[i + 1], Get(rhs, lhs.keys[i + 1]))
       THEN Returns(FALSE)
       ELSE Returns(TRUE)
  ELSE FallsThrough

\* The body of if (lhs.Type() == rhs.Type()).
EqualSameType(lhs, rhs) ==
  IF IsSequence(lhs)
  THEN IF Size(lhs) # Size(rhs) THEN Returns(FALSE) ELSE EqualSequenceLoop(lhs, rhs, 0, Size(lhs))
  ELSE IF IsMap(lhs)
  THEN IF Size(lhs) # Size(rhs) THEN Returns(FALSE) ELSE EqualMapLoop(lhs, rhs, 0, Size(lhs))
  ELSE Returns(ScalarOf(lhs) = ScalarOf(rhs))

\* equal: the value returned inside the if, return false after it.
equal(lhs, rhs) ==
  IF lhs.kind = rhs.kind /\ EqualSameType(lhs, rhs).returned
  THEN EqualSameType(lhs, rhs).value
  ELSE FALSE

\* Nodes of bounded size and depth: nulls and scalars,
EqualLeaves == {NullNode, Str(s_a), Str(s_b)}

EqualKeys == {s_a, s_b}

\* the sequences and the maps (with distinct keys) of up to MaxSize of them,
SequencesOf(nodes) == {SeqNode(vals) : vals \in UNION {[1..n -> nodes] : n \in 0..MaxSize}}

MapsOf(nodes) ==
  {MapNode(keys, vals) :
     <<keys, vals>> \in UNION {{kv \in [1..n -> EqualKeys] \X [1..n -> nodes] :
                                  \A i, j \in 1..n : kv[1][i] = kv[1][j] => i = j} : n \in 0..MaxSize}}

EqualFlat == SequencesOf(EqualLeaves) \cup MapsOf(EqualLeaves)

\* and a sequence and a map around each of those.
EqualNodes ==
  EqualLeaves \cup EqualFlat
  \cup {SeqNode(<<n>>) : n \in EqualFlat} \cup {MapNode(<<s_a>>, <<n>>) : n \in EqualFlat}

\* SpecEqual: one call of equal on two nodes.
EqualInit ==
  /\ pc = "equal"
  /\ doc \in EqualNodes
  /\ ctx = Context0
  /\ call = NoCall
  /\ result = NoErrata
  /\ exit_code = -1
  /\ fn = NoFn
  /\ OutIdle

EqualCall ==
  /\ pc = "equal"
  /\ \E rhs \in EqualNodes : fn' = [op |-> "equal", lhs |-> doc, rhs |-> rhs, ret |-> equal(doc, rhs)]
  /\ pc' = "returned"
  /\ UNCHANGED <<doc, ctx, call, result, exit_code, out_vars>>

EqualNext == EqualCall

SpecEqual == EqualInit /\ [][EqualNext]_vars

\* Deep structural equality, as the specification states it.
RECURSIVE DeepEqual(_, _)
DeepEqual(lhs, rhs) ==
  /\ lhs.kind = rhs.kind
  /\ IF IsSequence(lhs)
     THEN /\ Size(lhs) = Size(rhs)
          /\ \A i \in 1..Size(lhs) : DeepEqual(lhs.vals[i], rhs.vals[i])
     ELSE IF IsMap(lhs)
     THEN /\ Size(lhs) = Size(rhs)
          /\ \A i \in 1..Size(lhs) :
                Has(rhs, lhs.keys[i]) /\ DeepEqual(lhs.vals[i], Get(rhs, lhs.keys[i]))
     ELSE lhs.scalar = rhs.scalar

\* C13: equal(lhs, rhs) returns true iff lhs and rhs are deep-structurally
\* equal, for all nodes of bounded size and depth.
C13_EqualIsDeepEquality ==
  fn.op = "equal" => (fn.ret <=> DeepEqual(fn.lhs, fn.rhs))

----------------------------------------------------------------------------
(* SpecLocate: one call of locate, made as process_definitions makes it: on *)
(* the context of a run that has loaded a document and written the prelude. *)

s_type == PropName.TYPE

\* Paths: references of the documents, and paths with empty segments, with a
\* segment below a scalar and without a leading '#'.
LocatePaths ==
  { RefA, RefB, RefTree, RefRoot, RefSlash, RefNope, <<>>,
    <<"#", "/", "d">>,
    <<"d", "/", "A">>,
    RefA \o <<"/">> \o s_type,
    RefA \o <<"/">> \o s_type \o <<"/", "x">>,
    RefA \o <<"/", "/", "d">>,
    <<"#", "/">> \o s_definitions }

LocateDocs == {d \in Docs : IsMap(d)}

LocateInit ==
  /\ pc = "locate"
  /\ doc \in LocateDocs
  /\ ctx = PreludeContext
  /\ call = NoCall
  /\ result = NoErrata
  /\ exit_code = -1
  /\ fn = NoFn
  /\ OutIdle

LocateCall ==
  /\ pc = "locate"
  /\ \E path \in LocatePaths : fn' = [op |-> "locate", path |-> path, ret |-> locate(ctx, path)]
  /\ pc' = "returned"
  /\ UNCHANGED <<doc, ctx, call, result, exit_code, out_vars>>

LocateNext == LocateCall

SpecLocate == LocateInit /\ [][LocateNext]_vars

\* The segments of a path: what is before each '/', and what is after the
\* last one when that is not empty.
RECURSIVE Segments(_)
Segments(path) ==
  IF path = <<>> THEN <<>>
  ELSE IF \E i \in 1..Len(path) : path[i] = "/"
       THEN LET p == CHOOSE i \in 1..Len(path) : path[i] = "/" /\ \A j \in 1..(i - 1) : path[j] # "/"
            IN  <<SubSeq(path, 1, p - 1)>> \o Segments(SubSeq(path, p + 1, Len(path)))
       ELSE <<path>>

\* The resolution the specification describes, from the root of the document:
\* the node reached, or the index of the first segment that fails.
RECURSIVE Resolved(_, _, _, _)
Resolved(root, cursor, segs, i) ==
  IF i > Len(segs) THEN [ok |-> TRUE, node |-> cursor, failed |-> 0]
  ELSE IF segs[i] = <<>> \/ segs[i] = <<"#">> THEN Resolved(root, root, segs, i + 1)
  ELSE IF cursor.kind = "MAP" /\ \E k \in 1..Len(cursor.keys) : cursor.keys[k] = segs[i]
  THEN Resolved(root, cursor.vals[CHOOSE k \in 1..Len(cursor.keys) : cursor.keys[k] = segs[i]], segs, i + 1)
  ELSE [ok |-> FALSE, node |-> UndefinedNode, failed |-> i]

\* C14: locate(path) returns the node reached from the root of the document
\* by the key lookups of the segments of the path when every segment
\* succeeds, and otherwise an ERROR and no node.
C14_LocateResolvesFromRoot ==
  fn.op = "locate" =>
    LET want == Resolved(doc, doc, Segments(fn.path), 1)
    IN  /\ fn.ret.ok = want.ok
        /\ want.ok => (fn.ret.node = want.node /\ fn.ret.e = NoErrata)
        /\ ~want.ok => (fn.ret.node = UndefinedNode /\ IsError(fn.ret.e))

----------------------------------------------------------------------------
(* SpecType: the type set of a schema node.  Either process_type_value is   *)
(* called on the value of 'type', or, without 'type', validate_node sets    *)
(* every type and goes on.                                                  *)

MaxNames == 3    \* SpecType: number of names in a 'type' sequence

\* The elements of a 'type' sequence: two type names, a name that is not a
\* type, and a node that is not a scalar.
TypeElements == {Str(SchemaTypeLexicon.STRING), Str(SchemaTypeLexicon.OBJECT), Str(s_foo), NullNode}

\* The values of 'type': every type name, names that are not types, a null, a
\* map, and the sequences of up to MaxNames elements.
TypeValues ==
  {Str(SchemaTypeLexicon[t]) : t \in DOMAIN SchemaTypeLexicon}
  \cup {Str(s_foo), Str(<<>>), NullNode, EmptySchema}
  \cup {SeqNode(vals) : vals \in UNION {[1..n -> TypeElements] : n \in 0..MaxNames}}

\* A schema without 'type' that has an object and an array property.
NoTypeDoc ==
  MapNode(<<PropName.REQUIRED, PropName.MIN_ITEMS>>, <<SeqNode(<<Str(s_a)>>), Str(<<"1">>)>>)

TypeDocs ==
  {TypeOf(v) : v \in TypeValues}
  \cup {d \in Docs : IsMap(d) /\ ~Given(d, PropName.TYPE) /\ ~Given(d, REF_KEY)}
  \cup {NoTypeDoc}

TypeInit ==
  /\ pc = "type"
  /\ doc \in TypeDocs
  /\ ctx = OperatorContext
  /\ call = NoCall
  /\ result = NoErrata
  /\ exit_code = -1
  /\ fn = NoFn
  /\ OutIdle

\* validate_node calls process_type_value on the value of 'type', with an
\* empty set.
TypeValueCall ==
  /\ pc = "type"
  /\ Given(doc, PropName.TYPE)
  /\ fn' = [op |-> "process_type_value", value |-> Get(doc, PropName.TYPE),
            ret |-> process_type_value(Get(doc, PropName.TYPE), {})]
  /\ pc' = "returned"
  /\ UNCHANGED <<doc, ctx, call, result, exit_code, out_vars>>

\* validate_node on a schema without 'type': types.set(), and the rest of the
\* function.
TypeAbsentCall ==
  /\ pc = "type"
  /\ ~Given(doc, PropName.TYPE)
  /\ fn' = [op |-> "types.set", types |-> TypesOf(doc).types]
  /\ LET r == validate_node(ctx, doc, NodeVar)
     IN  /\ ctx' = r.c
         /\ call' = CallOf("validate_node", doc, NodeVar, TypesOf(doc).types, ctx, r.e)
  /\ pc' = "returned"
  /\ UNCHANGED <<doc, result, exit_code, out_vars>>

TypeNext == TypeValueCall \/ TypeAbsentCall

SpecType == TypeInit /\ [][TypeNext]_vars

\* The names listed in a value of 'type'.
ListedNames(value) ==
  IF value.kind = "SCALAR" THEN <<value.scalar>>
  ELSE [i \in 1..Len(value.vals) |-> IF value.vals[i].kind = "SCALAR" THEN value.vals[i].scalar ELSE <<>>]

IsTypeName(name) == \E t \in DOMAIN SchemaTypeLexicon : SchemaTypeLexicon[t] = name

\* Number of notes of a severity in an Errata.
NotesOf(e, sev) == Cardinality({i \in 1..Len(e) : e[i].sev = sev})

\* The type set is that of the valid names listed, with an ERROR for every
\* name that is not a type and a WARN for every repetition of a type; a value
\* that is neither scalar nor sequence gives one ERROR and no type.
TypeSetOfNames ==
  IF fn.value.kind \in {"SCALAR", "SEQUENCE"}
  THEN LET names == ListedNames(fn.value)
       IN  /\ fn.ret.types = {t \in DOMAIN SchemaTypeLexicon :
                                \E i \in 1..Len(names) : names[i] = SchemaTypeLexicon[t]}
           /\ NotesOf(fn.ret.e, "ERROR") = Cardinality({i \in 1..Len(names) : ~IsTypeName(names[i])})
           /\ NotesOf(fn.ret.e, "WARN")
                = Cardinality({i \in 1..Len(names) :
                                IsTypeName(names[i]) /\ \E j \in 1..(i - 1) : names[j] = names[i]})
           /\ Len(fn.ret.e) = NotesOf(fn.ret.e, "ERROR") + NotesOf(fn.ret.e, "WARN")
  ELSE /\ fn.ret.types = {}
       /\ Len(fn.ret.e) = 1
       /\ fn.ret.e[1].sev = "ERROR"

\* Without 'type' the set is full, and the object and array properties of the
\* node are processed: the check of 'required' and that of 'minItems' are
\* written.
FullSetStillProcessed ==
  /\ fn.types = {t \in DOMAIN SchemaTypeLexicon : TRUE}
  /\ IsSequence(Get(doc, PropName.REQUIRED)) =>
       Count(Added(call.pre, ctx), <<"// check for required tags">>) = 1
  /\ (~IsError(call.ret) /\ Has(doc, PropName.MIN_ITEMS)) =>
       Count(Added(call.pre, ctx), <<".size() < ">>) = 1

\* C19: process_type_value computes the type set as exactly the set of the
\* valid type names listed in 'type'; a name that is not a type records an
\* ERROR, a repeated name a WARN without changing the set, a value that is
\* neither scalar nor sequence an ERROR; without 'type' the set is full and
\* the object and array processing still runs.
C19_TypeSet ==
  /\ fn.op = "process_type_value" => TypeSetOfNames
  /\ fn.op = "types.set" => FullSetStillProcessed

\* process_type_value has returned from a sequence that lists a type twice
\* and a name that is not a type.
C19_Witness ==
  /\ fn.op = "process_type_value"
  /\ fn.value.kind = "SEQUENCE"
  /\ fn.ret.types = {"STRING"}
  /\ NotesOf(fn.ret.e, "WARN") = 1
  /\ NotesOf(fn.ret.e, "ERROR") = 1

----------------------------------------------------------------------------
(* The 'required' property. *)

\* A sequence whose elements are all scalars.
ScalarSequence(n) == IsSequence(n) /\ \A i \in 1..Size(n) : IsScalar(n.vals[i])

\* Number of ERROR notes of an Errata.
Errors(e) == Len(SelectSeq(e, LAMBDA x : x.sev = "ERROR"))

\* Number of required-tag loops in a text.
RequiredLoops(text) == Count(text, <<"for ( auto && tag : { ">>)

\* C21: when the value of 'required' is not a sequence of scalars (it is not a
\* sequence, or it is a sequence with a map, a sequence or a null in it),
\* process_object_value records an ERROR and writes no required-tag loop.
C21_RequiredMustBeScalars ==
  (/\ call.op = "process_object_value"
   /\ Has(call.node, PropName.REQUIRED)
   /\ ~ScalarSequence(Get(call.node, PropName.REQUIRED))) =>
    /\ Errors(ctx.notes) > Errors(call.pre.notes)
    /\ RequiredLoops(Added(call.pre, ctx)) = 0

----------------------------------------------------------------------------
(* Tuple 'items'. *)

\* 'items' is a sequence of schemas and the two bounds, where given, parse
\* and are in order: process_array_value reaches the tuple.
TupleReached(node) ==
  /\ IsSequence(Get(node, PropName.ITEMS))
  /\ ~ItemsInvalid(node, PropName.MIN_ITEMS)
  /\ ~ItemsInvalid(node, PropName.MAX_ITEMS)
  /\ ~(MinItems(node) > MaxItems(node))

\* The code validate_node writes for the schema of item idx on the variable of
\* the tuple, without its indentation.
ItemText(pre, node, idx) ==
  Unindented(Added(var_name(pre),
                   validate_node(var_name(pre), Get(node, PropName.ITEMS).vals[idx + 1], VarName(pre)).c))

\* C22: when a tuple has N schemas and 'maxItems' is K with N >= K,
\* process_array_value records a WARN and writes no validation code for an
\* item index at or above K, in the unconditional shape and in the dispatch.
C22_ExtraSchemasIgnored ==
  (/\ call.op = "process_array_value"
   /\ TupleReached(call.node)
   /\ Has(call.node, PropName.MAX_ITEMS)
   /\ Size(Get(call.node, PropName.ITEMS)) >= MaxItems(call.node)) =>
    /\ \E i \in 1..Len(call.ret) :
          call.ret[i] = [sev |-> "WARN", msg |-> "items: extra schemas ignored"]
    /\ \A idx \in MaxItems(call.node)..(Size(Get(call.node, PropName.ITEMS)) - 1) :
          /\ ItemText(call.pre, call.node, idx) # <<>>
          /\ Occurrences(Unindented(Added(call.pre, ctx)), ItemText(call.pre, call.node, idx)) = 0

\* ---- the dispatch, read back from the text

\* The places of the case arms in a text without indentation, in order.  An
\* arm is: "case ", label, ": {", newline, "auto ", nvar, " = ", var, "[",
\* index, "];".
Arms(text) == SelectSeq([p \in 1..Len(text) |-> p], LAMBDA p : text[p] = <<"case ">>)
ArmLabel(text, p) == text[p + 1]
ArmIndex(text, p) == text[p + 9]

\* The item indices whose validation runs when the switch is executed on a
\* size k: control enters at the first arm labelled k and, no arm ending in a
\* break, goes through every arm after it; no arm is run when none is
\* labelled k.
Executed(text, k) ==
  LET entry == {p \in 1..Len(text) : text[p] = <<"case ">> /\ ArmLabel(text, p) = Num(k)}
  IN  {ArmIndex(text, p) : p \in {q \in 1..Len(text) :
                                    /\ text[q] = <<"case ">>
                                    /\ \E e \in entry : e <= q}}

\* C23: for a tuple with limit > minItems the dispatch on var.size() has one
\* case arm per item index, labelled with that index, and its execution for
\* an array of size k runs the validations of the indices below k and of no
\* index at or above k.
C23_DispatchArms ==
  (/\ call.op = "process_array_value"
   /\ TupleReached(call.node)
   /\ ~IsError(call.ret)
   /\ TupleLimit(Get(call.node, PropName.ITEMS), MaxItems(call.node)) > MinItems(call.node)) =>
    LET text == Unindented(Added(call.pre, ctx))
        limit == TupleLimit(Get(call.node, PropName.ITEMS), MaxItems(call.node))
    IN  /\ Len(Arms(text)) = limit
        /\ \A i \in 1..Len(Arms(text)) :
              /\ ArmLabel(text, Arms(text)[i]) = Num(i - 1)
              /\ ArmIndex(text, Arms(text)[i]) = Num(i - 1)
        /\ \A k \in 0..limit : Executed(text, k) = {Num(i) : i \in 0..(k - 1)}

----------------------------------------------------------------------------
(* SpecOneOf: process_one_of_value compiles a 'oneOf', and the code it has *)
(* written is executed on a value, statement by statement.                  *)

MaxAlt == 3

\* The sub-schemas: one type, or no constraint.
Alternatives == {StringSchema, IntegerSchema, EmptySchema}
OneOfValues == {SeqNode(v) : v \in UNION {[1..n -> Alternatives] : n \in 1..MaxAlt}}

\* The value at run time: the types whose predicate is true of it.
Truths == SUBSET {"STRING", "INTEGER"}

OneOfInit ==
  /\ pc = "walk"
  /\ doc \in OneOfValues
  /\ ctx = OperatorContext
  /\ call = NoCall
  /\ result = NoErrata
  /\ exit_code = -1
  /\ fn = NoFn
  /\ OutIdle

\* The lines of a text.
CodeLines(text) ==
  LET nl == SelectSeq([p \in 1..Len(text) |-> p], LAMBDA p : text[p] = NL)
  IN  [k \in 1..Len(nl) |-> SubSeq(text, IF k = 1 THEN 1 ELSE nl[k - 1] + 1, nl[k] - 1)]

\* The code process_one_of_value has written, as lines without indentation.
Program == CodeLines(Unindented(Added(call.pre, ctx)))

First(l) == IF l = <<>> THEN <<>> ELSE l[1]
Last(l) == IF l = <<>> THEN <<>> ELSE l[Len(l)]

\* The blocks of the code: the lines that open one and the line that closes it.
BlockOpeners ==
  {<<") && ++one_of_count > 1) {">>, <<"for ( auto && vf : one_of_verify ) {">>,
   <<"if (one_of_count != 1) {">>}
Opens(l) == Last(l) \in BlockOpeners
Closes(l) == l = <<<<"}">>>>
Balance(P, j, k) ==
  Cardinality({i \in j..k : Opens(P[i])}) - Cardinality({i \in j..k : Closes(P[i])})
Match(P, k) ==
  CHOOSE j \in (k + 1)..Len(P) :
    Balance(P, k, j) = 0 /\ \A i \in (k + 1)..(j - 1) : Balance(P, k, i) > 0
Opener(P, k) == CHOOSE j \in 1..(k - 1) : Opens(P[j]) /\ Match(P, j) = k

\* The initialiser of one_of_verify: its last line, and the first lines of
\* its callables in order.
VerifyEnd(P) == CHOOSE k \in 1..Len(P) : P[k] = <<<<"};">>>>
Callables(P) ==
  SelectSeq([k \in 1..Len(P) |-> k],
            LAMBDA k : /\ 1 < k /\ k < VerifyEnd(P)
                       /\ \/ First(P[k - 1]) = <<"std::array<Validator, ">>
                          \/ P[k - 1] = <<<<"},">>>>)

\* The capture [&erratum = one_of_err]: erratum in the callable is the local
\* accumulator; with any other capture it is the diagnostic of the caller.
CapturesLocal(head) ==
  head = <<<<"[&erratum = one_of_err, name, this] (YAML::Node const& node) -> bool {">>>>

\* The execution of the body of a callable from line k: a type check whose
\* predicate is false of the value records an error and returns false; the
\* body ends in "return true;".
RECURSIVE RunBody(_, _, _)
RunBody(P, k, truth) ==
  IF P[k] = <<<<"return true;">>>> THEN [ok |-> TRUE, errs |-> <<>>]
  ELSE IF First(P[k]) = <<"if (! ">> /\ \A t \in truth : SchemaTypeCheck[t] # P[k][2]
  THEN [ok |-> FALSE, errs |-> <<P[k][2]>>]
  ELSE RunBody(P, k + 1, truth)

\* The code starts to run on a value: erratum is the diagnostic of the caller.
RunStart ==
  /\ pc = "walked"
  /\ call.op = "process_one_of_value"
  /\ \E truth \in Truths :
       fn' = [op |-> "run", line |-> 1, truth |-> truth, count |-> -1, vf |-> 0,
              outer |-> <<>>, inner |-> <<>>, ret |-> "none"]
  /\ pc' = "run"
  /\ UNCHANGED <<doc, ctx, call, result, exit_code, out_vars>>

\* The statement at the current line, and the step to a line.
AtLine == pc = "run" /\ fn.line <= Len(Program)
Line == Program[fn.line]
Goto(f, k) ==
  /\ fn' = [f EXCEPT !.line = k]
  /\ UNCHANGED <<pc, doc, ctx, call, result, exit_code, out_vars>>

\* // oneOf
RunComment == AtLine /\ First(Line) = <<"// ">> /\ Goto(fn, fn.line + 1)

\* swoc::Errata one_of_err;
RunErrata ==
  AtLine /\ Line = <<<<"swoc::Errata one_of_err;">>>> /\ Goto([fn EXCEPT !.inner = <<>>], fn.line + 1)

\* std::array<Validator, N> one_of_verify = { ... };
RunArray ==
  AtLine /\ First(Line) = <<"std::array<Validator, ">> /\ Goto(fn, VerifyEnd(Program) + 1)

\* unsigned one_of_count = 0;
RunCounter ==
  AtLine /\ Line = <<<<"unsigned one_of_count = 0;">>>> /\ Goto([fn EXCEPT !.count = 0], fn.line + 1)

\* for ( auto && vf : one_of_verify ) {
RunFor ==
  /\ AtLine /\ Line = <<<<"for ( auto && vf : one_of_verify ) {">>>>
  /\ IF fn.vf < Len(Callables(Program))
     THEN Goto([fn EXCEPT !.vf = @ + 1], fn.line + 1)
     ELSE Goto(fn, Match(Program, fn.line) + 1)

\* if (vf(var) && ++one_of_count > 1) {
RunCall ==
  /\ AtLine /\ First(Line) = <<"if (vf(">> /\ Last(Line) = <<") && ++one_of_count > 1) {">>
  /\ LET head == Callables(Program)[fn.vf]
         r == RunBody(Program, head + 1, fn.truth)
         f == IF CapturesLocal(Program[head])
              THEN [fn EXCEPT !.inner = @ \o r.errs]
              ELSE [fn EXCEPT !.outer = @ \o r.errs]
     IN  IF r.ok
         THEN IF fn.count + 1 > 1
              THEN Goto([f EXCEPT !.count = @ + 1], fn.line + 1)
              ELSE Goto([f EXCEPT !.count = @ + 1], Match(Program, fn.line))
         ELSE Goto(f, Match(Program, fn.line))

\* erratum.error(...);
RunError ==
  /\ AtLine
  /\ First(Line) \in {<<"erratum.error(\"Node at line {} was valid for more than one schema.\", ">>,
                      <<"erratum.error(\"'{}' value at line {} was not valid for any of these schemas.\", name,">>}
  /\ Goto([fn EXCEPT !.outer = Append(@, First(Line))], fn.line + 1)

\* erratum.note(one_of_err);
RunNote ==
  AtLine /\ Line = <<<<"erratum.note(one_of_err);">>>>
    /\ Goto([fn EXCEPT !.outer = @ \o fn.inner], fn.line + 1)

\* return false;
RunReturn ==
  /\ AtLine /\ Line = <<<<"return false;">>>>
  /\ fn' = [fn EXCEPT !.ret = "false"]
  /\ pc' = "done"
  /\ UNCHANGED <<doc, ctx, call, result, exit_code, out_vars>>

\* }: the end of the body of the loop goes back to the loop, the end of any
\* other block goes on.
RunBlockEnd ==
  /\ AtLine /\ Closes(Line)
  /\ IF Program[Opener(Program, fn.line)] = <<<<"for ( auto && vf : one_of_verify ) {">>>>
     THEN Goto(fn, Opener(Program, fn.line))
     ELSE Goto(fn, fn.line + 1)

\* if (one_of_count != 1) {
RunTest ==
  /\ AtLine /\ Line = <<<<"if (one_of_count != 1) {">>>>
  /\ IF fn.count # 1 THEN Goto(fn, fn.line + 1) ELSE Goto(fn, Match(Program, fn.line) + 1)

\* The code of the 'oneOf' has been passed: the validator goes on.
RunEnd ==
  /\ pc = "run" /\ fn.line > Len(Program)
  /\ fn' = [fn EXCEPT !.ret = "passed"]
  /\ pc' = "done"
  /\ UNCHANGED <<doc, ctx, call, result, exit_code, out_vars>>

OneOfNext ==
  \/ WalkOneOfValue \/ RunStart \/ RunComment \/ RunErrata \/ RunArray \/ RunCounter
  \/ RunFor \/ RunCall \/ RunError \/ RunNote \/ RunReturn \/ RunBlockEnd \/ RunTest \/ RunEnd

SpecOneOf == OneOfInit /\ [][OneOfNext]_vars

\* Does a value with these types satisfy a sub-schema.
Holds(schema, truth) ==
  Has(schema, PropName.TYPE) => LexiconType(ScalarOf(Get(schema, PropName.TYPE))) \in truth

\* The sub-schemas the value satisfies.
Satisfied == {i \in 1..Size(doc) : Holds(doc.vals[i], fn.truth)}

MoreThanOne == <<"erratum.error(\"Node at line {} was valid for more than one schema.\", ">>
NotValidForAny ==
  <<"erratum.error(\"'{}' value at line {} was not valid for any of these schemas.\", name,">>

\* C24: the code written for a non-empty 'oneOf' passes iff exactly one of
\* the sub-schemas is satisfied.  With two the error of that is recorded and
\* false is returned at once, no later callable being invoked; with none the
\* accumulated inner errors and an error are recorded and false is returned;
\* with exactly one the failures of the others are in the local accumulator
\* only and the diagnostic of the caller has nothing.
C24_OneOfExactlyOne ==
  pc = "done" =>
    /\ fn.ret \in {"passed", "false"}
    /\ fn.ret = "passed" <=> Cardinality(Satisfied) = 1
    /\ Cardinality(Satisfied) > 1 =>
         /\ fn.outer = <<MoreThanOne>>
         /\ fn.vf \in Satisfied
         /\ Cardinality({i \in Satisfied : i < fn.vf}) = 1
    /\ Cardinality(Satisfied) = 0 =>
         /\ Len(fn.inner) = Size(doc)
         /\ fn.outer = fn.inner \o <<NotValidForAny>>
    /\ Cardinality(Satisfied) = 1 =>
         /\ fn.outer = <<>>
         /\ Len(fn.inner) = Size(doc) - 1
         /\ fn.vf = Size(doc)

\* The code of a 'oneOf' of three sub-schemas has passed on a value that
\* satisfies the second one only.
C24_Witness ==
  /\ pc = "done"
  /\ Size(doc) = 3
  /\ Satisfied = {2}
  /\ fn.ret = "passed"
  /\ Len(fn.inner) = 2

----------------------------------------------------------------------------
(* The identifier allocator. *)

\* C25: var_name returns node_n with n starting at 1 and increasing with
\* every call of the run, the counter never being reset or decreased: the
\* i-th name allocated in a run is node_i, so no two calls return the same
\* name.
C25_NamesNeverRepeat ==
  /\ ctx.var_idx = Len(ctx.allocated) + 1
  /\ \A i \in 1..Len(ctx.allocated) : ctx.allocated[i] = <<"node_", ToString(i)>>
  /\ \A i, j \in 1..Len(ctx.allocated) : i # j => ctx.allocated[i] # ctx.allocated[j]

\* A run has compiled a schema whose properties, 'anyOf' and 'oneOf' each
\* allocated a name.
C25_Witness ==
  /\ Compiled
  /\ doc = AllPropsDoc
  /\ Len(ctx.allocated) >= 3

----------------------------------------------------------------------------
(* What the walker does after an ERROR. *)

\* The errors of each part of a node itself, in the order of PartMarkers.
PartFaults ==
  <<{"type: not a valid type", "type: must be a string or array of strings"},
    {"required: is not type array", "properties: is not type object"},
    {"minItems: must be a positive integer", "maxItems: must be a positive integer",
     "array: minItems is larger than maxItems", "items: must be array or object"},
    {"anyOf: must be array type"},
    {"oneOf: must be array type"},
    {"enum: must be array type"}>>

\* The messages of the ERROR notes of an Errata.
ErrorsOf(e) == {e[i].msg : i \in {j \in 1..Len(e) : e[j].sev = "ERROR"}}

\* The errors recorded by the call: those it returned, those it added to the
\* notes of the run and those of nested calls whose result was not used.
NewErrors ==
  ErrorsOf(call.ret)
    \cup ErrorsOf(SubSeq(ctx.notes, Len(call.pre.notes) + 1, Len(ctx.notes)))
    \cup ErrorsOf(SubSeq(ctx.dropped, Len(call.pre.dropped) + 1, Len(ctx.dropped)))

\* A call of validate_node on a schema without '$ref' whose sub-schemas are
\* all empty.
OnFlatSchema ==
  /\ call.op = "validate_node"
  /\ IsMap(call.node)
  /\ ~Given(call.node, REF_KEY)
  /\ Flat(call.node)

\* A call of process_any_of_value on a sequence of sub-schemas.
OnAnyOf == call.op = "process_any_of_value" /\ IsSequence(call.node) /\ Size(call.node) >= 1

\* The result of validate_node on sub-schema i of the node of the call.
Sibling(i) == validate_node(call.pre, call.node.vals[i], NodeVar).e

\* The compile does not stop at an ERROR: the error of every faulty 'type',
\* 'anyOf', 'oneOf' and 'enum' of a node and of every faulty sub-schema of an
\* 'anyOf' is recorded.
C26_NoShortCircuit ==
  /\ OnFlatSchema =>
       /\ (Given(call.node, PropName.TYPE) /\ IsError(TypesOf(call.node).e))
            => PartFaults[1] \cap NewErrors # {}
       /\ (Given(call.node, PropName.ANY_OF) /\ ~IsSequence(Get(call.node, PropName.ANY_OF)))
            => PartFaults[4] \cap NewErrors # {}
       /\ (Given(call.node, PropName.ONE_OF) /\ ~IsSequence(Get(call.node, PropName.ONE_OF)))
            => PartFaults[5] \cap NewErrors # {}
       /\ (Given(call.node, PropName.ENUM) /\ ~IsSequence(Get(call.node, PropName.ENUM)))
            => PartFaults[6] \cap NewErrors # {}
  /\ OnAnyOf => \A i \in 1..Size(call.node) : ErrorsOf(Sibling(i)) \subseteq NewErrors

\* C26: the compile stops at the first ERROR a walker function sees.
\* validate_node returns as soon as one part of the node - type, object
\* properties, array properties, anyOf, oneOf, enum, in that order - has an
\* error: no code is written for a later part and no error of a later part is
\* recorded.  process_any_of_value returns at the first sub-schema with an
\* error: no callable is opened for a later sub-schema and only the errors of
\* that sub-schema are returned.
C26_StopsAtFirstError ==
  /\ OnFlatSchema =>
       \A i, j \in 1..Len(PartFaults) :
         (i < j /\ PartFaults[i] \cap NewErrors # {}) =>
           /\ PartFaults[j] \cap NewErrors = {}
           /\ \A p \in 1..Len(Added(call.pre, ctx)) : Added(call.pre, ctx)[p] \notin PartMarkers[j]
  /\ OnAnyOf =>
       \A b \in 1..Size(call.node) :
         (IsError(Sibling(b)) /\ \A i \in 1..(b - 1) : ~IsError(Sibling(i))) =>
           /\ Count(Added(call.pre, ctx), AnyOfLambda[1].text[1]) = b
           /\ Count(Added(call.pre, ctx), <<"return true;">>) = b - 1
           /\ Errors(call.ret) = Errors(Sibling(b)) + 1

\* validate_node has returned from a schema whose 'anyOf' and 'enum' both
\* have an error, with the error of the 'anyOf'.
C26_Witness ==
  /\ pc = "walked"
  /\ call.op = "validate_node"
  /\ call.node = TwoErrorsDoc
  /\ PartFaults[4] \cap NewErrors # {}

----------------------------------------------------------------------------
(* The names of the definition functions. *)

\* C27: the function identifiers of the definition table are distinct for
\* distinct reference strings, so no two definition functions of a run share
\* a name.
C27_DefunNamesInjective ==
  /\ \A r1, r2 \in DOMAIN ctx.definitions :
        r1 # r2 => ctx.definitions[r1] # ctx.definitions[r2]
  /\ \A r \in DOMAIN ctx.definitions : FunctionsNamed(ctx, ctx.definitions[r]) <= 1

----------------------------------------------------------------------------
(* The variables of the emitted code. *)

\* An allocated name as a token of the text.
IsAllocated(t) == Len(t) = 2 /\ t[1] = "node_"

\* The places of a text where an allocated name is declared - after "auto "
\* or as the variable of a loop - and those where one is used.
AutoDeclarations(text) ==
  {k \in 2..Len(text) : IsAllocated(text[k]) /\ text[k - 1] = <<"auto ">>}
LoopDeclarations(text) ==
  {k \in 2..Len(text) : IsAllocated(text[k]) /\ text[k - 1] = <<"for ( auto && ">>}
Uses(text) ==
  {k \in 1..Len(text) : IsAllocated(text[k])} \ (AutoDeclarations(text) \cup LoopDeclarations(text))

\* The use at u is in the scope of the declaration at d: the rest of the
\* block of an "auto" declaration, the body of the loop of a loop variable.
InScope(text, d, u) ==
  /\ d < u
  /\ text[d] = text[u]
  /\ \A p \in LineStarts(text) :
        (d < p /\ p <= u) =>
          IF d \in LoopDeclarations(text)
          THEN DepthOf(text, p) > DepthOf(text, LineOf(text, d))
          ELSE DepthOf(text, p) >= DepthOf(text, LineOf(text, d))

\* C28: every allocated name that the code of a node uses is declared in an
\* enclosing scope before its use - by "auto" or as a loop variable - for
\* 'properties', for 'items' that is a schema and for both shapes of 'items'
\* that is a tuple.
C28_VariablesDeclared ==
  (/\ call.op \in {"validate_node", "process_object_value", "process_array_value"}
   /\ call.var = NodeVar
   /\ ~IsError(call.ret)) =>
    \A u \in Uses(Added(call.pre, ctx)) :
      \E d \in AutoDeclarations(Added(call.pre, ctx)) \cup LoopDeclarations(Added(call.pre, ctx)) :
        InScope(Added(call.pre, ctx), d, u)

----------------------------------------------------------------------------
(* The type check of an accepted 'type'. *)

\* Number of calls of a type predicate on a variable in a text.
AnyPredicateCalls(text, var) ==
  Cardinality({i \in 1..(Len(text) - 2) :
                 /\ \E t \in DOMAIN SchemaTypeCheck : text[i] = SchemaTypeCheck[t]
                 /\ text[i + 1] = <<"(">>
                 /\ text[i + 2] = var})

\* C29: for every 'type' that process_type_value accepts without an ERROR -
\* a scalar or a sequence of any length, the empty one included - the type
\* set handed to emit_type_check is not empty and the type check written
\* has at least one predicate call.
C29_TypeCheckHasPredicate ==
  call.op = "emit_type_check" =>
    /\ call.types # {}
    /\ AnyPredicateCalls(Added(call.pre, ctx), call.var) >= 1

----------------------------------------------------------------------------
(* The code of a sub-schema and the errors recorded before it. *)

\* validate_node on the schema of property i of the node of the call, alone:
\* in the context in which the call was made, after the allocation of the
\* variable of the properties.
PropertyAlone(i) ==
  validate_node(var_name(call.pre), Get(call.node, PropName.PROPERTIES).vals[i], VarName(call.pre))

\* The code that writes, without its indentation.
PropertyText(i) == Unindented(Added(var_name(call.pre), PropertyAlone(i).c))

\* C30: the code written for a schema depends on the schema and on the
\* definition table only, not on the errors recorded before: the code of
\* every property whose schema has no error of its own is written in full,
\* whatever errors the schemas of the properties before it had.
C30_SiblingsIndependent ==
  (/\ call.op = "validate_node"
   /\ IsMap(call.node)
   /\ ~Given(call.node, REF_KEY)
   /\ ~Given(call.node, PropName.TYPE)
   /\ ~Has(call.node, PropName.REQUIRED)
   /\ IsMap(Get(call.node, PropName.PROPERTIES))) =>
    \A i \in 1..Size(Get(call.node, PropName.PROPERTIES)) :
      (/\ ~IsError(PropertyAlone(i).e)
       /\ PropertyAlone(i).c.var_idx = call.pre.var_idx + 1
       /\ PropertyText(i) # <<>>) =>
        Occurrences(Unindented(Added(call.pre, ctx)), PropertyText(i)) >= 1

====
